---- MODULE Spec2Model ----
(***************************************************************************)
(* Model of the /scrape request handlers of pageshot.                      *)
(*                                                                         *)
(*   Spec      the handler of src/index.js (session creation, safeGoto,    *)
(*             detour loop, continue-shopping loop, classification,        *)
(*             extraction, screenshot, Gemini OCR, cleanup)                *)
(*   SpecLive  Spec with weak fairness on the handler's own steps          *)
(*   SpecP0    the handler of src/unnamed/part_000 (detectCase + 2Captcha) *)
(*   SpecAll   one request served by either handler, each handler's steps  *)
(*             weakly fair                                                 *)
(*   SpecCalc  the pure helpers evaluated on enumerated inputs:            *)
(*             normalizeGeminiPrice, isProductPage, the image-list blocks  *)
(*             of index.js and part_006, the retry step of the three       *)
(*             safeGoto variants                                           *)
(*   SpecP6    the handler of the second program of src/unnamed/part_006   *)
(*             (onDetour callback, bounce loop, inline continue-shopping   *)
(*             loop, extraction)                                           *)
(*   SpecConc  two requests of src/index.js interleaved at their awaits,   *)
(*             each with its own browser, context and pages                *)
(*   SpecBoot  process start-up of src/index.js and src/unnamed/part_001   *)
(*             (credential check, listen) followed by request handling     *)
(*                                                                         *)
(* Strings that the code inspects character by character (prices) are      *)
(* sequences of one-character strings.  Browser calls are the environment: *)
(* every awaited call draws its outcome from the outcomes the driver can   *)
(* produce (value, rejection, page closed).                                *)
(***************************************************************************)
EXTENDS Integers, Sequences, FiniteSets, TLC

\* ------------------------------------------------------------------ bounds
\* pop-up pages a click may open during one request
MaxPopups == 1
\* pages that may die (close on their own) during one request
MaxCrashes == 2

\* ------------------------------------------------------- program constants
\* safeGoto's default retries, used by the first navigation
FirstNavRetries == 2
\* retries of a detour bounce-back and of the fallback navigation
RecoveryNavRetries == 1
\* iterations of the detour-bounce loop
MaxDetourIterations == 3
\* iterations of the continue-shopping loop
MaxDismissIterations == 3
\* safeScreenshot's retries argument
ScreenshotRetries == 1

VARIABLES
    pc,                          \* position of the index.js handler
    proc,                        \* the browser process: "none" | "open" | "closed"
    browser,                     \* handler variable `browser` is assigned
    context,                     \* handler variable `context` is assigned
    pages,                       \* every page created, in creation order
    page,                        \* handler variable `page` (0 = undefined)
    detourBounceAttempts,
    continueShoppingDismissals,
    i,                           \* loop variable of the current loop
    nav,                         \* frame of the running safeGoto call
    shot,                        \* frame of the running safeScreenshot call
    scraped,                     \* result of scrapeProductData
    res,                         \* the HTTP response sent (NoRes = none yet)
    crashes,                     \* pages that died so far
    hcs,                         \* result of the running handleContinueShopping call
    hist,                        \* history of the request (observation only)
    p0,                          \* state of the part_000 handler
    calc,                        \* a function under evaluation: inputs and results
    p6,                          \* state of the part_006 handler
    conc,                        \* two concurrent requests and the process's objects
    srv                          \* the server process: start-up, part_001 handler

vars == <<pc, proc, browser, context, pages, page, detourBounceAttempts,
          continueShoppingDismissals, i, nav, shot, scraped, hcs, res, crashes, hist, p0, calc, p6, conc, srv>>

\* the variables of the other programs
auxVars == <<p6, conc, srv>>

\* ------------------------------------------------------------------ strings
Unspecified == <<"U","n","s","p","e","c","i","f","i","e","d">>
Empty == << >>

\* ------------------------------------------------------------ site fixtures
\* What a page can show.  Each fixture fixes the address and the DOM signals
\* the code reads.
Fixtures == {"product", "overlay", "detour", "captcha", "unknown"}
Blank == "blank"

FxUrl(f) ==
    CASE f = "product" -> "https://www.amazon.com/dp/B000000001"
      [] f = "overlay" -> "https://www.amazon.com/dp/B000000001"
      [] f = "detour"  -> "https://www.amazon.com/ap/signin"
      [] f = "captcha" -> "https://www.amazon.com/errors/validateCaptcha"
      [] f = "unknown" -> "https://www.amazon.com/"
      [] OTHER         -> "about:blank"

\* which patterns each address matches
DpUrls == {"https://www.amazon.com/dp/B000000001"}
DetourPatternUrls == {"https://www.amazon.com/ap/signin"}
RobotCheckUrls == {"https://www.amazon.com/errors/validateCaptcha"}

\* DOM signals of a fixture
FxDom(f) ==
    [ hasTitle    |-> f = "product",
      hasByline   |-> f = "product",
      hasBuyCtas  |-> f = "product",
      layoutHints |-> f \in {"product", "overlay"},
      canonicalDp |-> f = "product",
      hasContinue |-> f = "overlay",
      blockTitle  |-> f = "captcha",
      blockBody   |-> f = "captcha",
      price       |-> IF f = "product" THEN <<"$","1","2",".","9","9">> ELSE Empty ]

NoNav == [caller |-> "none", target |-> 0, retries |-> 0, attempt |-> 0,
          slept |-> FALSE, lastErr |-> << >>]
NoShot == [caller |-> "none", try |-> 0, adopted |-> FALSE]
NoScraped == [price |-> Empty, retried |-> FALSE]
NoHcs == [p2 |-> 0, dismissed |-> FALSE]

\* ----------------------------------------------------------- error messages
ClosedMsg == "Target page, context or browser has been closed"
E_Closed == <<ClosedMsg>>
E_Transport == <<"net::ERR_TIMED_OUT">>
E_Blocked == <<"Blocked by Amazon CAPTCHA/anti-bot">>
E_AllClosed == <<"All pages are closed">>
E_Launch == <<"browserType.launch: Failed to launch">>
E_Protocol == <<"Protocol error">>
E_AfterNav == <<"Page unexpectedly closed after navigation">>
E_BeforeShot == <<"Page closed before screenshot">>
E_Vision == <<"GoogleGenerativeAI Error">>
E_NoResponse == <<"Cannot read properties of undefined">>
ScreenshotFailed(msg) == <<"Screenshot failed: ">> \o msg

\* isClosedErr: the message contains the closed-target phrase
isClosedErr(err) == \E k \in 1..Len(err) : err[k] = ClosedMsg

\* --------------------------------------------------------------- responses
Absent == <<"(absent)">>
NoRes == [sent |-> 0, status |-> 0, ok |-> FALSE, pageType |-> "",
          detourBounceAttempts |-> -1, continueShoppingDismissals |-> -1,
          screenshot |-> FALSE, brand |-> Absent, price |-> Absent,
          priceGemini |-> Absent, error |-> << >>]

\* res.json(body) / res.status(code).json(body): one more response is written
Send(body) == [body EXCEPT !.sent = res.sent + 1]

\* res.status(code).json({ ok: false, error })
ErrorResponse(code, err) == [NoRes EXCEPT !.status = code, !.error = err]

\* res.json({ ok: true, pageType: "nonProduct", counters, screenshot, ... })
NonProductResponse ==
    [NoRes EXCEPT !.status = 200, !.ok = TRUE, !.pageType = "nonProduct",
                  !.detourBounceAttempts = detourBounceAttempts,
                  !.continueShoppingDismissals = continueShoppingDismissals,
                  !.screenshot = TRUE]

\* `x || "Unspecified"`
OrUnspecified(x) == IF x = Empty THEN Unspecified ELSE x

\* ------------------------------------------------------------------- pages
Idx == 1..Len(pages)
isClosed(k) == pages[k].closed
url(k) == FxUrl(pages[k].fx)
dom(k) == FxDom(pages[k].fx)
\* context.pages(): the open pages, in creation order
ContextPages == {k \in Idx : ~isClosed(k)}
Max(S) == CHOOSE x \in S : \A y \in S : y <= x
Min(S) == CHOOSE x \in S : \A y \in S : x <= y
NewPage(pop) == [closed |-> FALSE, fx |-> Blank, popup |-> pop]
Popups == Cardinality({k \in Idx : pages[k].popup})

\* ensureAlive(page): TRUE when it does not throw
ensureAlive(k) == k # 0 /\ ~isClosed(k)

\* adoptActivePageOrThrow(currentPage, context), ps being the context's pages;
\* 0 stands for the throw "All pages are closed"
adoptActivePageOrThrow(currentPage, ps) ==
    IF currentPage # 0 /\ ~ps[currentPage].closed THEN currentPage
    ELSE LET open == {k \in 1..Len(ps) : ~ps[k].closed}
             nonBlank == {k \in open : FxUrl(ps[k].fx) # "about:blank"}
         IN IF nonBlank # {} THEN Max(nonBlank)
            ELSE IF open # {} THEN Min(open)
            ELSE 0

isDpUrl(u) == u \in DpUrls
isRobotCheckUrl(u) == u # "" /\ u \in RobotCheckUrls

\* isDetourUrl(u)
isDetourUrl(u) ==
    IF u = "" THEN FALSE
    ELSE IF isDpUrl(u) THEN FALSE
    ELSE u \in DetourPatternUrls

\* looksBlocked(page) on a page showing fixture f
looksBlocked(f) ==
    \/ isRobotCheckUrl(FxUrl(f))
    \/ FxDom(f).blockTitle
    \/ FxDom(f).blockBody

\* the predicate isProductPage evaluates inside the document
ProductHeuristic(u, d) ==
    LET urlFlag == isDpUrl(u) \/ d.canonicalDp
    IN \/ (urlFlag /\ d.hasTitle /\ d.layoutHints)
       \/ ((d.hasTitle \/ d.hasByline) /\ d.hasBuyCtas)

\* faulty variant: a classifier that answers Product only once per request
isProductPageOnce(k) ==
    IF k = 0 \/ isClosed(k) \/ hist.loopReady THEN FALSE
    ELSE ProductHeuristic(url(k), dom(k))

\* isProductPage(page): page.evaluate in try/catch, FALSE when it throws
isProductPage(k) ==
    IF k = 0 \/ isClosed(k) THEN FALSE
    ELSE ProductHeuristic(url(k), dom(k))

\* ------------------------------------------------- text helpers (prices)
Digits == {"0","1","2","3","4","5","6","7","8","9"}
SuperDigits == {"^0","^1","^2","^3","^4","^5","^6","^7","^8","^9",
                "_0","_1","_2","_3","_4","_5","_6","_7","_8","_9"}
Upper == {"A","B","C","D","E","F","G","H","I","J","K","L","M",
          "N","O","P","Q","R","S","T","U","V","W","X","Y","Z"}
Lower == {"a","b","c","d","e","f","g","h","i","j","k","l","m",
          "n","o","p","q","r","s","t","u","v","w","x","y","z"}
\* U+00A0, U+2009, U+202F
NarrowSpaces == {"nbsp", "thinsp", "nnbsp"}
\* \s
Ws == {" ", "tab"} \cup NarrowSpaces
\* \w
WordChars == Digits \cup Upper \cup Lower \cup {"_"}
\* \p{Sc}
CurrencySymbols == {"$", "euro", "pound"}

\* digit a superscript or subscript numeral stands for
PlainDigit(ch) ==
    CASE ch \in {"^0","_0"} -> "0" [] ch \in {"^1","_1"} -> "1"
      [] ch \in {"^2","_2"} -> "2" [] ch \in {"^3","_3"} -> "3"
      [] ch \in {"^4","_4"} -> "4" [] ch \in {"^5","_5"} -> "5"
      [] ch \in {"^6","_6"} -> "6" [] ch \in {"^7","_7"} -> "7"
      [] ch \in {"^8","_8"} -> "8" [] ch \in {"^9","_9"} -> "9"
      [] OTHER -> ch

MapSeq(s, F(_)) == [k \in 1..Len(s) |-> F(s[k])]

\* String.prototype.trim
RECURSIVE TrimLeft(_)
TrimLeft(s) == IF s # << >> /\ Head(s) \in Ws THEN TrimLeft(Tail(s)) ELSE s
RECURSIVE TrimRight(_)
TrimRight(s) ==
    IF s # << >> /\ s[Len(s)] \in Ws THEN TrimRight(SubSeq(s, 1, Len(s) - 1)) ELSE s
Trim(s) == TrimRight(TrimLeft(s))

\* s.replace(/\s+/g, " ")
RECURSIVE CollapseFrom(_, _)
CollapseFrom(s, k) ==
    IF k > Len(s) THEN << >>
    ELSE IF s[k] \in Ws
         THEN (IF k > 1 /\ s[k-1] \in Ws THEN << >> ELSE <<" ">>) \o CollapseFrom(s, k + 1)
         ELSE <<s[k]>> \o CollapseFrom(s, k + 1)
CollapseSpaces(s) == CollapseFrom(s, 1)

At(s, k) == IF k >= 1 /\ k <= Len(s) THEN s[k] ELSE "(none)"
\* \b between positions k and k+1
WordBoundary(s, k) == (At(s, k) \in WordChars) # (At(s, k + 1) \in WordChars)

\* /\d\.\d{2,}/.test(s)
HasDecimal(s) ==
    \E k \in 1..Len(s) :
        At(s, k) \in Digits /\ At(s, k+1) = "." /\ At(s, k+2) \in Digits /\ At(s, k+3) \in Digits

\* positions of the comma in the matches of /(\d+),(\d{2})\b/
CommaCents(s) ==
    {c \in 1..Len(s) :
        /\ s[c] = ","
        /\ At(s, c-1) \in Digits
        /\ At(s, c+1) \in Digits /\ At(s, c+2) \in Digits
        /\ WordBoundary(s, c+2)}

\* [a, b]: the whitespace runs in the matches of /(\d+)\s+(\d{2})\b/
SpaceCents(s) ==
    {r \in (1..Len(s)) \X (1..Len(s)) :
        /\ r[1] <= r[2]
        /\ \A k \in r[1]..r[2] : s[k] \in Ws
        /\ At(s, r[1]-1) \in Digits
        /\ At(s, r[2]+1) \in Digits /\ At(s, r[2]+2) \in Digits
        /\ WordBoundary(s, r[2]+2)}

\* /\b[A-Z]{3}\b/ matches at k
IsoAt(s, k) ==
    /\ At(s, k) \in Upper /\ At(s, k+1) \in Upper /\ At(s, k+2) \in Upper
    /\ WordBoundary(s, k-1) /\ WordBoundary(s, k+2)
CurrencyAt(s, k) == At(s, k) \in CurrencySymbols \/ IsoAt(s, k)

\* includesCurrency(s)
includesCurrency(s) == \E k \in 1..Len(s) : CurrencyAt(s, k)

\* currencyToken(s): the leftmost match, "" when there is none
currencyToken(s) ==
    IF ~includesCurrency(s) THEN Empty
    ELSE LET k == Min({j \in 1..Len(s) : CurrencyAt(s, j)})
         IN IF s[k] \in CurrencySymbols THEN <<s[k]>> ELSE SubSeq(s, k, k+2)

DigitsOf(s) == SelectSeq(s, LAMBDA ch : ch \in Digits)

\* F applied to the value of v (v is evaluated once)
Then(v, F(_)) == CHOOSE r \in {F(x) : x \in {v}} : TRUE

\* s.replace(/[\u00A0\u2009\u202F]/g, " ")
ReplaceNarrowSpaces(s) == MapSeq(s, LAMBDA ch : IF ch \in NarrowSpaces THEN " " ELSE ch)

\* /[superscripts and subscripts]/.test(s)
HasSuper(s) == \E k \in 1..Len(s) : s[k] \in SuperDigits

\* if (!/\d\.\d{2,}/.test(s) && /(\d+),(\d{2})\b/.test(s)) s = s.replace(..., "$1.$2")
FixCommaCents(s) ==
    IF ~HasDecimal(s) /\ CommaCents(s) # {}
    THEN [s EXCEPT ![Min(CommaCents(s))] = "."]
    ELSE s

\* if (!/\d\.\d{2,}/.test(s) && /(\d+)\s+(\d{2})\b/.test(s)) s = s.replace(..., "$1.$2")
FixSpaceCents(s) ==
    IF ~HasDecimal(s) /\ SpaceCents(s) # {}
    THEN LET a == Min({r[1] : r \in SpaceCents(s)})
             b == CHOOSE y \in 1..Len(s) : <<a, y>> \in SpaceCents(s)
         IN SubSeq(s, 1, a-1) \o <<".">> \o SubSeq(s, b+1, Len(s))
    ELSE s

\* if (hadSuper && !/\d\.\d{2,}/.test(s)) { digits ...; s = cur ? `${cur} ${num}` : num }
FixSuperscriptCents(s, hadSuper, domPrice) ==
    IF hadSuper /\ ~HasDecimal(s) /\ Len(DigitsOf(s)) >= 3
    THEN LET digits == DigitsOf(s)
             n == Len(digits)
             num == SubSeq(digits, 1, n-2) \o <<".">> \o SubSeq(digits, n-1, n)
             cur == IF currencyToken(s) # Empty THEN currencyToken(s)
                    ELSE currencyToken(domPrice)
         IN IF cur # Empty THEN cur \o <<" ">> \o num ELSE num
    ELSE s

\* if (!includesCurrency(s) && includesCurrency(domPrice)) s = `${cur} ${s}`
BorrowCurrency(s, domPrice) ==
    IF ~includesCurrency(s) /\ includesCurrency(domPrice)
    THEN currencyToken(domPrice) \o <<" ">> \o s
    ELSE s

\* s = s.replace(/\s+/g, " ").trim(); return s || "Unspecified"
TidyPrice(s) == Then(Trim(CollapseSpaces(s)), LAMBDA t : IF t = Empty THEN Unspecified ELSE t)

\* normalizeGeminiPrice from the superscript mapping on; s1 is the trimmed
\* text with narrow spaces replaced
NormalizeMapped(s1, domPrice) ==
    Then(Then(Then(Then(Then(MapSeq(s1, PlainDigit),
                             FixCommaCents),
                        FixSpaceCents),
                   LAMBDA s4 : FixSuperscriptCents(s4, HasSuper(s1), domPrice)),
              LAMBDA s5 : BorrowCurrency(s5, domPrice)),
         TidyPrice)

\* normalizeGeminiPrice(raw, domPrice)
normalizeGeminiPrice(raw, domPrice) ==
    Then(Trim(raw),
         LAMBDA s0 : IF s0 = Empty THEN Unspecified
                     ELSE Then(ReplaceNarrowSpaces(s0),
                               LAMBDA s1 : NormalizeMapped(s1, domPrice)))

\* what the vision model can answer
ReplyValid == [json |-> TRUE, brandIsStr |-> TRUE, brand |-> <<"A","c","m","e">>,
               priceIsStr |-> TRUE, price |-> <<"$","1","2",".","9","9">>]
ReplyNoStrings == [json |-> TRUE, brandIsStr |-> FALSE, brand |-> Empty,
                   priceIsStr |-> FALSE, price |-> Empty]
ReplyMalformed == [json |-> FALSE, brandIsStr |-> FALSE, brand |-> Empty,
                   priceIsStr |-> FALSE, price |-> Empty]
Replies == {ReplyValid, ReplyNoStrings, ReplyMalformed}

\* geminiExtract's handling of the reply text: JSON.parse in try/catch
geminiExtract(reply) ==
    IF reply.json
    THEN [brand |-> IF reply.brandIsStr THEN Trim(reply.brand) ELSE Unspecified,
          price |-> IF reply.priceIsStr THEN Trim(reply.price) ELSE Unspecified]
    ELSE [brand |-> Unspecified, price |-> Unspecified]

\* ======================================== src/unnamed/part_000 /scrape
\* rounds of solveTextCaptcha's polling loop
MaxPollRounds == 20
\* milliseconds slept before every poll request
PollIntervalMs == 5000

\* signals detectCase reads from a page
P0Sig(title, text, cont, capUrl, capForm, capInput, capImg, e503, e504) ==
    [titleVisible |-> title, titleText |-> text, hasContinue |-> cont,
     urlLooksCaptcha |-> capUrl, hasCaptchaForm |-> capForm,
     hasCaptchaInput |-> capInput, hasCaptchaImg |-> capImg,
     is503 |-> e503, is504 |-> e504]

P0Blank == P0Sig(FALSE, FALSE, FALSE, FALSE, FALSE, FALSE, FALSE, FALSE, FALSE)

\* pages the site can serve
P0Fixtures ==
    { P0Blank,
      [P0Blank EXCEPT !.titleVisible = TRUE, !.titleText = TRUE],
      [P0Blank EXCEPT !.titleVisible = TRUE],
      [P0Blank EXCEPT !.hasContinue = TRUE],
      [P0Blank EXCEPT !.urlLooksCaptcha = TRUE, !.hasCaptchaForm = TRUE,
                      !.hasCaptchaInput = TRUE, !.hasCaptchaImg = TRUE],
      [P0Blank EXCEPT !.hasCaptchaForm = TRUE],
      [P0Blank EXCEPT !.hasCaptchaInput = TRUE, !.hasCaptchaImg = TRUE],
      [P0Blank EXCEPT !.hasCaptchaImg = TRUE],
      [P0Blank EXCEPT !.is503 = TRUE],
      [P0Blank EXCEPT !.is504 = TRUE],
      [P0Blank EXCEPT !.is503 = TRUE, !.hasCaptchaForm = TRUE],
      [P0Blank EXCEPT !.is503 = TRUE, !.titleVisible = TRUE, !.titleText = TRUE] }

\* detectCase(page)
detectCase(sig) ==
    IF sig.titleVisible /\ sig.titleText
    THEN [type |-> "normal", errorType |-> "", fallbackNormal |-> FALSE]
    ELSE IF sig.hasContinue
    THEN [type |-> "continue-shopping", errorType |-> "", fallbackNormal |-> FALSE]
    ELSE IF sig.urlLooksCaptcha \/ sig.hasCaptchaForm
            \/ (sig.hasCaptchaImg /\ sig.hasCaptchaInput)
    THEN [type |-> "captcha-text", errorType |-> "", fallbackNormal |-> FALSE]
    ELSE IF sig.is503
    THEN [type |-> "error", errorType |-> "503", fallbackNormal |-> FALSE]
    ELSE IF sig.is504
    THEN [type |-> "error", errorType |-> "504", fallbackNormal |-> FALSE]
    ELSE [type |-> "normal", errorType |-> "", fallbackNormal |-> TRUE]

NoDetected == [type |-> "", errorType |-> "", fallbackNormal |-> FALSE]
NoSolver == [ok |-> FALSE, stage |-> ""]
P0NoRes == [sent |-> 0, status |-> 0, ok |-> FALSE, case |-> "", solverOk |-> "absent",
            solverStage |-> "", screenshot |-> FALSE, brand |-> Absent,
            price |-> Absent, error |-> << >>]

P0Idle ==
    [ pc         |-> "idle",
      key        |-> FALSE,       \* TWO_CAPTCHA_KEY is set
      proc       |-> "none",      \* the browser process
      browser    |-> FALSE,       \* handler variable `browser` is assigned
      sig        |-> P0Blank,     \* what the page shows
      httpStatus |-> 0,           \* navResp.status(), 0 = null
      gotos      |-> 0,           \* page.goto calls
      detections |-> 0,           \* detectCase calls
      detected   |-> NoDetected,
      cropOk     |-> FALSE,
      solver     |-> NoSolver,    \* solveTextCaptcha's result
      polls      |-> 0,           \* poll requests issued
      waited     |-> 0,           \* milliseconds slept by the polling loop
      scraped    |-> FALSE,       \* scrapeProductData was invoked
      failStage  |-> "",          \* step whose exception reached the catch block
      res        |-> P0NoRes ]

indexVars == <<pc, proc, browser, context, pages, page, detourBounceAttempts,
               continueShoppingDismissals, i, nav, shot, scraped, hcs, res, crashes, hist>>

\* res.json(body) / res.status(code).json(body): one more response is written
P0Send(st, body) == [body EXCEPT !.sent = st.res.sent + 1]

\* catch (err) { try { await browser?.close() } catch {}; res.status(500).json(...) }
P0Catch(st, stage, err) ==
    [st EXCEPT !.pc = "done",
               !.proc = IF st.browser THEN "closed" ELSE @,
               !.failStage = stage,
               !.res = P0Send(st, [P0NoRes EXCEPT !.status = 500, !.case = "error",
                                                  !.error = err])]

\* const buf = await page.screenshot(); await browser.close(); return res.json(body)
P0Respond(st, body) ==
    [st EXCEPT !.pc = "done", !.proc = "closed", !.res = P0Send(st, body)]

\* app.get('/scrape'): url check, minimalContext
P0Start ==
    /\ p0.pc = "idle"
    /\ \E hasUrl \in BOOLEAN, key \in BOOLEAN, session \in {"ok", "launchFails", "setupFails"} :
         p0' = IF ~hasUrl
               THEN [p0 EXCEPT !.pc = "done", !.key = key,
                               !.res = P0Send(p0, [P0NoRes EXCEPT !.status = 400,
                                                       !.error = <<"Missing url parameter">>])]
               ELSE IF session = "ok"
               THEN [p0 EXCEPT !.pc = "goto", !.key = key, !.proc = "open", !.browser = TRUE]
               ELSE P0Catch([p0 EXCEPT !.key = key,
                                       !.proc = IF session = "setupFails" THEN "open" ELSE @],
                            "session", E_Protocol)
    /\ UNCHANGED <<indexVars, calc, auxVars>>

\* navResp = await page.goto(url); consent click; waitForTimeout
P0Goto ==
    /\ p0.pc = "goto"
    /\ \/ \E sig \in P0Fixtures, status \in {200, 503, 504} :
            p0' = [p0 EXCEPT !.pc = "detect", !.sig = sig, !.httpStatus = status,
                             !.gotos = @ + 1]
       \/ p0' = P0Catch([p0 EXCEPT !.gotos = @ + 1], "goto", E_Transport)
    /\ UNCHANGED <<indexVars, calc, auxVars>>

\* detected = await detectCase(page); the first result continue-shopping
\* leads to tryClickContinue and a second detectCase
P0Detect ==
    /\ p0.pc = "detect"
    /\ \/ LET d == detectCase(p0.sig) IN
          p0' = [p0 EXCEPT !.pc = IF d.type = "continue-shopping" /\ p0.detections = 0
                                  THEN "click" ELSE "branch",
                           !.detections = @ + 1, !.detected = d]
       \/ \* page.content() or a selector query rejects
          p0' = P0Catch(p0, "detect", E_Protocol)
    /\ UNCHANGED <<indexVars, calc, auxVars>>

\* await tryClickContinue(page); waitForTimeout: the click may load another page
P0Click ==
    /\ p0.pc = "click"
    /\ \E sig \in P0Fixtures : p0' = [p0 EXCEPT !.pc = "detect", !.sig = sig]
    /\ UNCHANGED <<indexVars, calc, auxVars>>

\* what scrapeProductData can return: each field is the trimmed text of its
\* element, '' when the page has none
P0Scraped == [brand : {Empty, <<"A","c","m","e">>}, price : {Empty, <<"$","1","2",".","9","9">>}]

\* `x || ''`
OrEmpty(x) == IF x = Empty THEN Empty ELSE x

\* the handler's branches on `detected`: error, captcha (crop), normal
P0Branch ==
    /\ p0.pc = "branch"
    /\ LET d == p0.detected IN
       IF d.type = "error" \/ p0.httpStatus \in {503, 504}
       THEN \/ p0' = P0Respond(p0, [P0NoRes EXCEPT !.status = 200, !.ok = FALSE,
                                                   !.case = "error", !.screenshot = TRUE])
            \/ p0' = P0Catch(p0, "screenshot", E_Protocol)
       ELSE IF d.type = "captcha-text"
       THEN \* crop = await screenshotCaptchaElementBase64(page)
            \/ p0' = [p0 EXCEPT !.pc = "solve", !.cropOk = TRUE]
            \/ \* no element, too big, or the capture failed: answer without solving
               \/ p0' = P0Respond(p0, [P0NoRes EXCEPT !.status = 200, !.ok = FALSE,
                                           !.case = d.type, !.solverOk = "false",
                                           !.solverStage = "prepare", !.screenshot = TRUE])
               \/ p0' = P0Catch(p0, "screenshot", E_Protocol)
       ELSE \* normal page: getTitle, scrapeProductData, screenshot
            \/ \E pdata \in P0Scraped :
                  p0' = P0Respond([p0 EXCEPT !.scraped = TRUE],
                                  [P0NoRes EXCEPT !.status = 200, !.ok = TRUE,
                                                  !.case = "normal", !.screenshot = TRUE,
                                                  !.brand = OrEmpty(pdata.brand),
                                                  !.price = OrEmpty(pdata.price)])
            \/ p0' = P0Catch([p0 EXCEPT !.scraped = TRUE], "scrape", E_Protocol)
    /\ UNCHANGED <<indexVars, calc, auxVars>>

\* solveTextCaptcha: the key check and the submission to in.php
P0Solve ==
    /\ p0.pc = "solve"
    /\ IF ~p0.key
       THEN p0' = P0Catch(p0, "solver", <<"TWOCAPTCHA_API_KEY not set">>)
       ELSE \/ p0' = [p0 EXCEPT !.pc = "poll"]
            \/ p0' = [p0 EXCEPT !.pc = "solved", !.solver = [ok |-> FALSE, stage |-> "submit"]]
            \/ p0' = P0Catch(p0, "solver", E_Transport)
    /\ UNCHANGED <<indexVars, calc, auxVars>>

\* faulty variant: the loop bound off by one (i <= 20)
P0PollOffByOne(n) == n <= MaxPollRounds

\* for (let i = 0; i < 20; i++)
P0PollContinues(n) == n < MaxPollRounds

\* solveTextCaptcha: one round of the polling loop
P0Poll ==
    /\ p0.pc = "poll"
    /\ IF P0PollContinues(p0.polls)
       THEN \/ p0' = [p0 EXCEPT !.polls = @ + 1, !.waited = @ + PollIntervalMs,
                                !.pc = "solved", !.solver = [ok |-> TRUE, stage |-> ""]]
            \/ p0' = [p0 EXCEPT !.polls = @ + 1, !.waited = @ + PollIntervalMs,
                                !.pc = "solved", !.solver = [ok |-> FALSE, stage |-> "poll"]]
            \/ \* CAPCHA_NOT_READY
               p0' = [p0 EXCEPT !.polls = @ + 1, !.waited = @ + PollIntervalMs]
            \/ p0' = P0Catch([p0 EXCEPT !.polls = @ + 1, !.waited = @ + PollIntervalMs],
                              "solver", E_Transport)
       ELSE p0' = [p0 EXCEPT !.pc = "solved", !.solver = [ok |-> FALSE, stage |-> "timeout"]]
    /\ UNCHANGED <<indexVars, calc, auxVars>>

\* viewportShot; browser.close(); res.json({ ok: !!solverResult.ok, solverOk, ... })
P0SolverResponse ==
    /\ p0.pc = "solved"
    /\ \/ p0' = P0Respond(p0, [P0NoRes EXCEPT
                    !.status = 200, !.ok = p0.solver.ok, !.case = p0.detected.type,
                    !.solverOk = IF p0.solver.ok THEN "true" ELSE "false",
                    !.solverStage = IF p0.solver.stage = "" THEN "done" ELSE p0.solver.stage,
                    !.screenshot = TRUE])
       \/ p0' = P0Catch(p0, "screenshot", E_Protocol)
    /\ UNCHANGED <<indexVars, calc, auxVars>>

P0Next ==
    \/ P0Start \/ P0Goto \/ P0Detect \/ P0Click \/ P0Branch
    \/ P0Solve \/ P0Poll \/ P0SolverResponse

\* ====================================================== src/index.js /scrape
NoHist == [ firstNavOk  |-> FALSE,   \* the first safeGoto returned and the page was alive
            failStage   |-> "",      \* step whose exception reached the handler's catch
            bounces     |-> 0,       \* safeGoto calls issued by the detour loop
            bounceUrls  |-> {},      \* page.url() seen when a bounce was issued
            hcsCalls    |-> 0,       \* handleContinueShopping calls
            loopReady   |-> FALSE,   \* isProductPage returned true inside the dismissal loop
            classified  |-> {},      \* pages isProductPage found to be Product
            scrapedOn   |-> {},      \* pages scrapeProductData was invoked on
            vision      |-> "",      \* what the vision service did
            parsed      |-> FALSE,   \* the vision reply parsed as JSON
            closedFail  |-> FALSE,   \* the request failed on a closed-page condition
            liveAtFail  |-> FALSE,   \* ... while the context still had an open page
            adoptedAtFail |-> FALSE  \* ... after adopting a page and retrying
          ]

handlerVars == <<page, detourBounceAttempts, continueShoppingDismissals, i, nav, shot, scraped, hcs>>
sessionVars == <<proc, browser, context>>

Running == pc \notin {"idle", "finally", "done"} /\ pages # << >>

\* faulty variant: a catch block that sends nothing
CatchWithoutResponse(err, stage, h) ==
    /\ res' = res
    /\ hist' = [h EXCEPT !.failStage = stage]
    /\ pc' = "finally"

\* catch (err) { res.status(500).json({ ok: false, error: err.message }) }
Catch(err, stage, h) ==
    /\ res' = Send(ErrorResponse(500, err))
    /\ hist' = [h EXCEPT !.failStage = stage]
    /\ pc' = "finally"

\* a closed-page condition reaches the catch block
ClosedFailure(h, adopted, ps) ==
    [h EXCEPT !.closedFail = TRUE,
              !.liveAtFail = \E k \in 1..Len(ps) : ~ps[k].closed,
              !.adoptedAtFail = adopted]

\* entry of safeGoto(target, url, { retries })
StartGoto(caller, target, retries) ==
    /\ nav' = [caller |-> caller, target |-> target, retries |-> retries,
               attempt |-> 0, slept |-> FALSE, lastErr |-> << >>]
    /\ pc' = "goto"

\* app.get("/scrape"): const targetUrl = req.query.url
Receive ==
    /\ pc = "idle"
    /\ \E hasUrl \in BOOLEAN :
         IF hasUrl
         THEN pc' = "launch" /\ res' = res
         ELSE /\ res' = Send(ErrorResponse(400, <<"Missing url param">>))
              /\ pc' = "done"
    /\ UNCHANGED <<sessionVars, pages, handlerVars, crashes, hist, p0, calc, auxVars>>

\* minimalContext: chromium.launch
Launch ==
    /\ pc = "launch"
    /\ \/ /\ proc' = "open"
          /\ pc' = "newContext"
          /\ UNCHANGED <<res, hist>>
       \/ /\ Catch(E_Launch, "session", hist)
          /\ proc' = proc
    /\ UNCHANGED <<browser, context, pages, handlerVars, crashes, p0, calc, auxVars>>

\* minimalContext: browser.newContext
NewContext ==
    /\ pc = "newContext"
    /\ \/ /\ pc' = "newPage"
          /\ UNCHANGED <<res, hist>>
       \/ Catch(E_Protocol, "session", hist)
    /\ UNCHANGED <<sessionVars, pages, handlerVars, crashes, p0, calc, auxVars>>

\* minimalContext: context.newPage, addInitScript, setExtraHTTPHeaders, return;
\* then the handler's assignments and the call of the first safeGoto
NewPageSetup ==
    /\ pc = "newPage"
    /\ \/ /\ pages' = <<NewPage(FALSE)>>
          /\ browser' = TRUE /\ context' = TRUE /\ page' = 1
          /\ StartGoto("first", 1, FirstNavRetries)
          /\ UNCHANGED <<res, hist>>
       \/ \* context.newPage rejects
          /\ Catch(E_Protocol, "session", hist)
          /\ UNCHANGED <<pages, browser, context, page, nav>>
       \/ \* addInitScript or setExtraHTTPHeaders rejects
          /\ pages' = <<NewPage(FALSE)>>
          /\ Catch(E_Protocol, "session", hist)
          /\ UNCHANGED <<browser, context, page, nav>>
    /\ UNCHANGED <<proc, detourBounceAttempts, continueShoppingDismissals, i, shot,
                   scraped, hcs, crashes, p0, calc, auxVars>>

\* safeGoto returns to its caller
GotoReturn ==
    /\ pc' = CASE nav.caller = "first"  -> "afterFirst"
               [] nav.caller = "bounce" -> "afterBounce"
               [] OTHER                 -> "hcsRet"
    /\ hcs' = IF nav.caller \in {"hcsTry", "hcsCatch"}
              THEN [p2 |-> nav.target, dismissed |-> TRUE]
              ELSE hcs
    /\ nav' = NoNav
    /\ UNCHANGED <<res, hist>>

\* safeGoto throws err to its caller
GotoThrow(err) ==
    /\ CASE nav.caller = "first"    -> Catch(err, "firstNav", hist)
         [] nav.caller = "bounce"   -> Catch(err, "bounce", hist)
         [] nav.caller = "hcsTry"   -> pc' = "hcsCatch" /\ UNCHANGED <<res, hist>>
         [] OTHER                   -> Catch(err, "dismiss", hist)
    /\ nav' = NoNav
    /\ hcs' = hcs

\* while (attempt <= retries) after attempt++
GotoRetries(attempt, retries) == attempt <= retries

\* if (attempt < retries) await sleep(jitter(1000, 1500))
Backoff(attempt, retries) == attempt < retries

\* faulty variant: the catch block without attempt++
GotoFailedNoIncrement(err) ==
    /\ nav' = [nav EXCEPT !.lastErr = err]
    /\ UNCHANGED <<pc, res, hist, hcs>>

\* catch (err) { lastErr = err; if (page.isClosed()) throw; ...; attempt++ }
GotoFailed(err) ==
    IF GotoRetries(nav.attempt + 1, nav.retries)
    THEN /\ nav' = [nav EXCEPT !.attempt = @ + 1, !.lastErr = err,
                               !.slept = Backoff(nav.attempt, nav.retries)]
         /\ UNCHANGED <<pc, res, hist, hcs>>
    ELSE GotoThrow(err)

\* one iteration of safeGoto's loop: page.goto, looksBlocked
SafeGotoAttempt ==
    /\ pc = "goto"
    /\ LET k == nav.target IN
       IF isClosed(k)
       THEN \* page.goto rejects, page.isClosed() rethrows
            /\ GotoThrow(E_Closed)
            /\ UNCHANGED <<pages, crashes>>
       ELSE \/ \E f \in Fixtures :
                 /\ pages' = [pages EXCEPT ![k].fx = f]
                 /\ crashes' = crashes
                 /\ IF looksBlocked(f) THEN GotoFailed(E_Blocked) ELSE GotoReturn
            \/ \* navigation times out or fails in transport
               /\ GotoFailed(E_Transport)
               /\ UNCHANGED <<pages, crashes>>
            \/ \* the page dies during the navigation
               /\ crashes < MaxCrashes
               /\ pages' = [pages EXCEPT ![k].closed = TRUE]
               /\ crashes' = crashes + 1
               /\ GotoThrow(E_Closed)
    /\ UNCHANGED <<sessionVars, page, detourBounceAttempts, continueShoppingDismissals,
                   i, shot, scraped, p0, calc, auxVars>>

\* ensureAlive(page, "Page unexpectedly closed after navigation")
AfterFirstNav ==
    /\ pc = "afterFirst"
    /\ IF ensureAlive(page)
       THEN /\ hist' = [hist EXCEPT !.firstNavOk = TRUE]
            /\ pc' = "detour"
            /\ i' = 0
            /\ res' = res
       ELSE /\ Catch(E_AfterNav, "afterNav", hist)
            /\ i' = i
    /\ UNCHANGED <<sessionVars, pages, page, detourBounceAttempts,
                   continueShoppingDismissals, nav, shot, scraped, hcs, crashes, p0, calc, auxVars>>

\* faulty variant: the loop bound off by one (i <= 3)
DetourLoopOffByOne(n) == n <= MaxDetourIterations

\* for (let i = 0; i < 3; i++)
DetourLoopContinues(n) == n < MaxDetourIterations

\* one iteration of the detour-bounce loop up to the safeGoto call
DetourLoop ==
    /\ pc = "detour"
    /\ IF DetourLoopContinues(i) /\ isDetourUrl(url(page))
       THEN /\ detourBounceAttempts' = detourBounceAttempts + 1
            /\ hist' = [hist EXCEPT !.bounces = @ + 1,
                                    !.bounceUrls = @ \cup {url(page)}]
            /\ StartGoto("bounce", page, RecoveryNavRetries)
            /\ i' = i
       ELSE /\ pc' = "dismiss"
            /\ i' = 0
            /\ UNCHANGED <<detourBounceAttempts, hist, nav>>
    /\ UNCHANGED <<sessionVars, pages, page, continueShoppingDismissals, shot, scraped,
                   hcs, res, crashes, p0, calc, auxVars>>

\* the bounce's safeGoto returned: sleep, i++
AfterBounce ==
    /\ pc = "afterBounce"
    /\ i' = i + 1
    /\ pc' = "detour"
    /\ UNCHANGED <<sessionVars, pages, page, detourBounceAttempts,
                   continueShoppingDismissals, nav, shot, scraped, hcs, res, crashes,
                   hist, p0, calc, auxVars>>

\* faulty variant: the loop bound off by one (i <= 3)
DismissLoopOffByOne(n) == n <= MaxDismissIterations

\* for (let i = 0; i < 3; i++)
DismissLoopContinues(n) == n < MaxDismissIterations

\* head of the continue-shopping loop: call handleContinueShopping or leave
DismissLoop ==
    /\ pc = "dismiss"
    /\ IF DismissLoopContinues(i)
       THEN /\ pc' = "hcsClick"
            /\ hist' = [hist EXCEPT !.hcsCalls = @ + 1]
            /\ i' = i
       ELSE /\ pc' = "check"
            /\ hist' = hist
            /\ i' = 0
    /\ UNCHANGED <<sessionVars, pages, page, detourBounceAttempts,
                   continueShoppingDismissals, nav, shot, scraped, hcs, res, crashes, p0, calc, auxVars>>

\* clickContinueShoppingIfPresent(page): a control was found and clicked.
\* Every probe is wrapped in try/catch, so a closed page reads as "nothing found".
clickContinueShoppingIfPresent(k) == ~isClosed(k) /\ dom(k).hasContinue

\* handleContinueShopping: the click and the race of popup / navigation / load
HcsClick ==
    /\ pc = "hcsClick"
    /\ IF ~clickContinueShoppingIfPresent(page)
       THEN /\ hcs' = [p2 |-> page, dismissed |-> FALSE]
            /\ pc' = "hcsRet"
            /\ pages' = pages
       ELSE /\ pc' = "hcsPick"
            /\ hcs' = hcs
            /\ \E f \in Fixtures, popup \in {"none", Blank, "unknown"} :
                 /\ popup # "none" => Popups < MaxPopups
                 /\ pages' = LET nav1 == [pages EXCEPT ![page].fx = f]
                             IN IF popup = "none" THEN nav1
                                ELSE Append(nav1, [NewPage(TRUE) EXCEPT !.fx = popup])
    /\ UNCHANGED <<sessionVars, page, detourBounceAttempts, continueShoppingDismissals,
                   i, nav, shot, scraped, res, crashes, hist, p0, calc, auxVars>>

\* pages.find((p) => !p.isClosed() && p.url() !== "about:blank"); 0 = undefined
FirstActive ==
    LET nonBlank == {k \in ContextPages : url(k) # "about:blank"}
    IN IF nonBlank = {} THEN 0 ELSE Min(nonBlank)

\* handleContinueShopping after the race: choice of the page to return
HcsPick ==
    /\ pc = "hcsPick"
    /\ IF FirstActive # 0 /\ FirstActive # page
       THEN /\ hcs' = [p2 |-> FirstActive, dismissed |-> TRUE]
            /\ pc' = "hcsRet"
            /\ UNCHANGED <<pages, nav>>
       ELSE IF ~isClosed(page)
       THEN /\ hcs' = [p2 |-> page, dismissed |-> TRUE]
            /\ pc' = "hcsRet"
            /\ UNCHANGED <<pages, nav>>
       ELSE \/ \* const fresh = await context.newPage(); safeGoto(fresh, fallbackUrl)
               /\ pages' = Append(pages, NewPage(FALSE))
               /\ StartGoto("hcsTry", Len(pages) + 1, RecoveryNavRetries)
               /\ hcs' = hcs
            \/ \* context.newPage rejects: caught by handleContinueShopping
               /\ pc' = "hcsCatch"
               /\ UNCHANGED <<pages, nav, hcs>>
    /\ UNCHANGED <<sessionVars, page, detourBounceAttempts, continueShoppingDismissals,
                   i, shot, scraped, res, crashes, hist, p0, calc, auxVars>>

\* handleContinueShopping's catch block
HcsCatch ==
    /\ pc = "hcsCatch"
    /\ IF adoptActivePageOrThrow(page, pages) # 0
       THEN /\ hcs' = [p2 |-> adoptActivePageOrThrow(page, pages), dismissed |-> TRUE]
            /\ pc' = "hcsRet"
            /\ UNCHANGED <<pages, nav, res, hist>>
       ELSE \/ /\ pages' = Append(pages, NewPage(FALSE))
               /\ StartGoto("hcsCatch", Len(pages) + 1, RecoveryNavRetries)
               /\ UNCHANGED <<hcs, res, hist>>
            \/ \* context.newPage rejects: handleContinueShopping throws
               /\ Catch(E_Protocol, "dismiss", hist)
               /\ UNCHANGED <<pages, nav, hcs>>
    /\ UNCHANGED <<sessionVars, page, detourBounceAttempts, continueShoppingDismissals,
                   i, shot, scraped, crashes, p0, calc, auxVars>>

\* handleContinueShopping returned: page = p2; count; isProductPage; break or i++
HcsReturn ==
    /\ pc = "hcsRet"
    /\ page' = hcs.p2
    /\ continueShoppingDismissals' =
         IF hcs.dismissed THEN continueShoppingDismissals + 1 ELSE continueShoppingDismissals
    /\ IF isProductPage(hcs.p2)
       THEN /\ pc' = "check"
            /\ i' = 0
            /\ hist' = [hist EXCEPT !.loopReady = TRUE, !.classified = @ \cup {hcs.p2}]
       ELSE /\ pc' = "dismiss"
            /\ i' = i + 1
            /\ hist' = hist
    /\ hcs' = NoHcs
    /\ UNCHANGED <<sessionVars, pages, detourBounceAttempts, nav, shot, scraped,
                   res, crashes, p0, calc, auxVars>>

\* entry of safeScreenshot(page, opts, 1)
StartShot(caller) ==
    /\ shot' = [caller |-> caller, try |-> 0, adopted |-> FALSE]
    /\ pc' = "shot"

\* 4) productLike = await isProductPage(page).  isProductPage catches every
\* error itself, so the handler's catch arm around it never runs.
FinalCheck ==
    /\ pc = "check"
    /\ IF isProductPage(page)
       THEN /\ pc' = "scrape"
            /\ hist' = [hist EXCEPT !.classified = @ \cup {page}]
            /\ shot' = shot
       ELSE /\ StartShot("nonProduct")
            /\ hist' = hist
    /\ UNCHANGED <<sessionVars, pages, page, detourBounceAttempts,
                   continueShoppingDismissals, i, nav, scraped, hcs, res, crashes, p0, calc, auxVars>>

\* scrapeProductData(page) rejected with err: the handler's catch arm
\* (ps: the pages at that moment, h: the history so far)
ScrapeFailed(err, ps, h) ==
    IF isClosedErr(err) /\ ~scraped.retried
    THEN IF adoptActivePageOrThrow(page, ps) = 0
         THEN /\ Catch(E_AllClosed, "scrape", ClosedFailure(h, FALSE, ps))
              /\ UNCHANGED <<page, scraped>>
         ELSE /\ page' = adoptActivePageOrThrow(page, ps)
              /\ scraped' = [scraped EXCEPT !.retried = TRUE]
              /\ hist' = h
              /\ UNCHANGED <<pc, res>>
    ELSE /\ Catch(err, "scrape",
                  IF isClosedErr(err) THEN ClosedFailure(h, scraped.retried, ps) ELSE h)
         /\ UNCHANGED <<page, scraped>>

\* 5) scraped = await scrapeProductData(page), retried once on a closed-page error
Scrape ==
    /\ pc = "scrape"
    /\ LET h == [hist EXCEPT !.scrapedOn = @ \cup {page}] IN
       IF isClosed(page)
       THEN /\ ScrapeFailed(E_Closed, pages, h)
            /\ UNCHANGED <<pages, crashes, shot>>
       ELSE \/ /\ scraped' = [scraped EXCEPT !.price = dom(page).price]
               /\ StartShot("product")
               /\ hist' = h
               /\ UNCHANGED <<pages, crashes, page, res>>
            \/ \* page.evaluate rejects for another reason
               /\ ScrapeFailed(E_Protocol, pages, h)
               /\ UNCHANGED <<pages, crashes, shot>>
            \/ \* the page dies during the evaluation
               /\ crashes < MaxCrashes
               /\ pages' = [pages EXCEPT ![page].closed = TRUE]
               /\ crashes' = crashes + 1
               /\ ScrapeFailed(E_Closed, pages', h)
               /\ shot' = shot
    /\ UNCHANGED <<sessionVars, detourBounceAttempts, continueShoppingDismissals, i, nav,
                   hcs, p0, calc, auxVars>>

\* for (let i = 0; i <= retries; i++) in safeScreenshot
ShotRetries(n) == n < ScreenshotRetries

\* safeScreenshot threw err: the handler's catch arm (adopt and call it again)
ShotFailed(err, ps) ==
    IF isClosedErr(err) /\ ~shot.adopted
    THEN IF adoptActivePageOrThrow(page, ps) = 0
         THEN /\ Catch(E_AllClosed, "screenshot", ClosedFailure(hist, FALSE, ps))
              /\ UNCHANGED <<page, shot>>
         ELSE /\ page' = adoptActivePageOrThrow(page, ps)
              /\ shot' = [shot EXCEPT !.try = 0, !.adopted = TRUE]
              /\ UNCHANGED <<pc, res, hist>>
    ELSE /\ Catch(err, "screenshot",
                  IF isClosedErr(err) \/ err = E_BeforeShot
                  THEN ClosedFailure(hist, shot.adopted, ps) ELSE hist)
         /\ UNCHANGED <<page, shot>>

\* one iteration of safeScreenshot's loop: ensureAlive, page.screenshot.
\* On the product path the handler's own ensureAlive(page, "Page closed before
\* screenshot") precedes the call with the same message and the same effect.
ScreenshotAttempt ==
    /\ pc = "shot"
    /\ IF ~ensureAlive(page)
       THEN /\ ShotFailed(E_BeforeShot, pages)
            /\ UNCHANGED <<pages, crashes>>
       ELSE \/ /\ pc' = IF shot.caller = "nonProduct" THEN "respondNP" ELSE "gemini"
               /\ UNCHANGED <<pages, crashes, page, shot, res, hist>>
            \/ \* page.screenshot rejects (timeout): retry after a sleep, or give up
               /\ IF ShotRetries(shot.try)
                  THEN /\ shot' = [shot EXCEPT !.try = @ + 1]
                       /\ UNCHANGED <<pc, page, res, hist>>
                  ELSE ShotFailed(ScreenshotFailed(E_Transport), pages)
               /\ UNCHANGED <<pages, crashes>>
            \/ \* the page dies during the capture
               /\ crashes < MaxCrashes
               /\ pages' = [pages EXCEPT ![page].closed = TRUE]
               /\ crashes' = crashes + 1
               /\ ShotFailed(ScreenshotFailed(E_Closed), pages')
    /\ UNCHANGED <<sessionVars, detourBounceAttempts, continueShoppingDismissals, i, nav,
                   scraped, hcs, p0, calc, auxVars>>

\* 4a) res.json({ ok: true, pageType: "nonProduct", ... }); meta, links and
\* buttons are read with .catch fallbacks
RespondNonProduct ==
    /\ pc = "respondNP"
    /\ res' = Send(NonProductResponse)
    /\ pc' = "finally"
    /\ UNCHANGED <<sessionVars, pages, handlerVars, crashes, hist, p0, calc, auxVars>>

\* res.json({ ok: true, pageType: "product", ... })
ProductResponse(gemini, priceGemini) ==
    [NoRes EXCEPT !.status = 200, !.ok = TRUE, !.pageType = "product",
                  !.detourBounceAttempts = detourBounceAttempts,
                  !.continueShoppingDismissals = continueShoppingDismissals,
                  !.screenshot = TRUE,
                  !.brand = OrUnspecified(gemini.brand),
                  !.price = OrUnspecified(scraped.price),
                  !.priceGemini = OrUnspecified(priceGemini)]

\* gemini = await geminiExtract(base64); normalizeGeminiPrice; res.json
Vision ==
    /\ pc = "gemini"
    /\ \/ \E reply \in Replies :
            LET gemini == geminiExtract(reply) IN
            /\ res' = Send(ProductResponse(gemini,
                                             normalizeGeminiPrice(gemini.price, scraped.price)))
            /\ hist' = [hist EXCEPT !.vision = "replied", !.parsed = reply.json]
            /\ pc' = "finally"
       \/ \* model.generateContent rejects
          Catch(E_Vision, "vision", [hist EXCEPT !.vision = "throws"])
       \/ \* result.response is missing: result.response.text() throws
          Catch(E_NoResponse, "vision", [hist EXCEPT !.vision = "noResponse"])
    /\ UNCHANGED <<sessionVars, pages, handlerVars, crashes, p0, calc, auxVars>>

\* finally { close every page of context?.pages(); browser?.close() }
Finally ==
    /\ pc = "finally"
    /\ pages' = IF context \/ browser
                THEN [k \in 1..Len(pages) |-> [pages[k] EXCEPT !.closed = TRUE]]
                ELSE pages
    /\ proc' = IF browser THEN "closed" ELSE proc
    /\ pc' = "done"
    /\ UNCHANGED <<browser, context, handlerVars, res, crashes, hist, p0, calc, auxVars>>

\* a page closes on its own (crash, window.close, site script) while the
\* handler is suspended in an await
PageCrash ==
    /\ Running
    /\ crashes < MaxCrashes
    /\ \E k \in ContextPages : pages' = [pages EXCEPT ![k].closed = TRUE]
    /\ crashes' = crashes + 1
    /\ UNCHANGED <<pc, sessionVars, handlerVars, res, hist, p0, calc, auxVars>>

\* ================================== functions evaluated on their own inputs
\* largest `retries` argument safeGoto is called with
MaxRetriesArg == 2
\* longest list of thumbnail images on a page
MaxThumbs == 2

CalcIdle == [op |-> "none"]

\* ---- prices handed to normalizeGeminiPrice
RawPrices ==
    { Empty, Unspecified,
      <<"3","4",",","9","5">>,
      <<"$","1","2",".","9","9">>,
      <<"1","2"," ","9","9">>,
      <<"^3","^4","^9","^9">>,
      <<"$","3","4","^9","^9">>,
      <<" ","nbsp">>,
      <<"E","U","R"," ","5">>,
      <<"1",",","2","3","4">> }
DomPrices ==
    { Empty, <<"$","1">>, <<"U","S","D"," ","1">>, <<"1","2",".","9","9">> }

\* priceGemini = normalizeGeminiPrice(raw, domPrice)
CalcNormalize ==
    /\ calc.op = "normalize" /\ calc.stage = 0
    /\ calc' = [calc EXCEPT !.stage = 1, !.out = normalizeGeminiPrice(calc.raw, calc.dom)]
    /\ UNCHANGED <<indexVars, p0, auxVars>>

\* normalizeGeminiPrice applied to its own result
CalcNormalizeAgain ==
    /\ calc.op = "normalize" /\ calc.stage = 1
    /\ calc' = [calc EXCEPT !.stage = 2, !.again = normalizeGeminiPrice(calc.out, calc.dom)]
    /\ UNCHANGED <<indexVars, p0, auxVars>>

\* ---- documents handed to isProductPage
PageSignals ==
    [ url : {"https://www.amazon.com/dp/B000000001", "https://www.amazon.com/"},
      canonicalDp : BOOLEAN, hasTitle : BOOLEAN, hasByline : BOOLEAN,
      hasBuyCtas : BOOLEAN, layoutHints : BOOLEAN ]

\* isProductPage(page) on a live page
CalcClassify ==
    /\ calc.op = "classify" /\ calc.stage = 0
    /\ calc' = [calc EXCEPT !.stage = 1, !.out = ProductHeuristic(calc.sig.url, calc.sig)]
    /\ UNCHANGED <<indexVars, p0, auxVars>>

\* ---- image addresses: stem, size modifiers, extension, query
Url(stem, mod, ext, query) == [stem |-> stem, mod |-> mod, ext |-> ext, query |-> query]
\* the empty string
NoUrl == Url("", << >>, "", "")
\* the pattern words that occur in a stem, as written
StemWords(stem) ==
    CASE stem = "https://m.media-amazon.com/images/G/01/nav-sprite"    -> {"sprite"}
      [] stem = "https://m.media-amazon.com/images/G/01/Promo-Overlay" -> {"Overlay"}
      [] OTHER -> {}
\* String.prototype.toLowerCase on a pattern word
ToLower(w) == CASE w = "Overlay" -> "overlay" [] OTHER -> w
\* src.toLowerCase().includes(word)
IncludesLower(u, word) == word \in {ToLower(w) : w \in StemWords(u.stem)}
\* url.includes(word)
Includes(u, word) == word \in StemWords(u.stem)

\* the modifiers /_AC_SL\d+_/ matches
AcSlTags == {"._AC_SL1500_", "_AC_SL1500_"}
\* the modifiers of the form ._XXX_ (what /\._[A-Z0-9_,]+\_\.jpg/i starts at)
DotTags == {"._AC_SL1500_", "._SS40_"}

\* the elements of s at the positions K, in order
RECURSIVE PickFrom(_, _, _)
PickFrom(s, K, k) ==
    IF k > Len(s) THEN << >>
    ELSE (IF k \in K THEN <<s[k]>> ELSE << >>) \o PickFrom(s, K, k + 1)

\* [...new Set(list)]: the first occurrence of each element
Dedupe(s) == PickFrom(s, {k \in 1..Len(s) : \A j \in 1..(k-1) : s[j] # s[k]}, 1)

\* index.js: url.replace(/\._[A-Z0-9_,]+\_\.jpg/i, ".jpg")
normalizeImageUrl(u) ==
    IF u.mod # << >> /\ Head(u.mod) \in DotTags /\ u.ext = ".jpg"
    THEN [u EXCEPT !.mod = << >>]
    ELSE u

\* index.js: AC_ANY = /\._AC_SL\d+_\.jpg(?:\?.*)?$/i
AcAny(u) == u.mod # << >> /\ u.mod[Len(u.mod)] = "._AC_SL1500_" /\ u.ext = ".jpg"

\* index.js: the junk filter on lower-cased addresses
IndexJunkWords == {"sprite", "360_icon", "play-icon", "overlay", "fmjpg", "fmpng"}
IndexJunk(u) == \E w \in IndexJunkWords : IncludesLower(u, w)

\* index.js scrapeProductData: the image block
IndexImages(doc) ==
    LET normalizedMain == normalizeImageUrl(doc.main)
        thumbs == SelectSeq(doc.thumbs, LAMBDA u : u # NoUrl)
        attrs == SelectSeq(doc.attrs, LAMBDA u : u # NoUrl)
        sweep == SelectSeq(<<doc.main>> \o doc.thumbs \o doc.attrs,
                           LAMBDA u : u.mod = <<"._AC_SL1500_">> /\ u.ext = ".jpg")
        merged == Dedupe(thumbs \o attrs \o sweep)
        clean == SelectSeq(merged, LAMBDA u : u # NoUrl /\ ~IndexJunk(u))
        kept == SelectSeq(clean, LAMBDA u : u # NoUrl /\ u # normalizedMain /\ AcAny(u))
    IN [mainImageUrl |-> normalizedMain, additionalImageUrls |-> Dedupe(kept)]

\* part_006: toHiRes(url)
toHiRes(u) ==
    IF u = NoUrl THEN NoUrl
    ELSE IF \E k \in 1..Len(u.mod) : u.mod[k] \in AcSlTags THEN u
    ELSE IF u.ext \in {".jpg", ".png"}
         THEN [u EXCEPT !.mod = Append(@, "_AC_SL1500_"), !.query = ""]
         ELSE u

\* part_006: !url.includes("icon") && !url.includes("overlay")
P6Junk(u) == Includes(u, "icon") \/ Includes(u, "overlay")

\* part_006 scrapeProductData: main image and additional images
P6Images(doc) ==
    LET mainImageUrl == toHiRes(IF doc.attrs # << >> THEN doc.attrs[1] ELSE doc.main)
        found == IF doc.color # << >> THEN doc.color
                 ELSE SelectSeq(doc.thumbs, LAMBDA u : u # NoUrl)
        hiRes == MapSeq(Dedupe(found), toHiRes)
    IN [mainImageUrl |-> mainImageUrl,
        additionalImageUrls |->
            SelectSeq(hiRes, LAMBDA u : u # NoUrl /\ u # mainImageUrl /\ ~P6Junk(u))]

\* lists of at most n elements of S
ListsUpTo(S, n) == UNION {[1..m -> S] : m \in 0..n}

\* image candidates a page can carry: the landing image, the thumbnails, the
\* landing image's data attributes (largest first), the colorImages script
ImagePages ==
    LET imgA == Url("https://m.media-amazon.com/images/I/a", <<"._AC_SL1500_">>, ".jpg", "")
        imgAPlain == Url("https://m.media-amazon.com/images/I/a", << >>, ".jpg", "")
        imgAQuery == Url("https://m.media-amazon.com/images/I/a", << >>, ".jpg", "?v=2")
        imgB == Url("https://m.media-amazon.com/images/I/b", <<"._AC_SL1500_">>, ".jpg", "")
        imgBThumb == Url("https://m.media-amazon.com/images/I/b", <<"._SS40_">>, ".jpg", "")
        imgSprite == Url("https://m.media-amazon.com/images/G/01/nav-sprite",
                         <<"._AC_SL1500_">>, ".jpg", "")
        imgOverlay == Url("https://m.media-amazon.com/images/G/01/Promo-Overlay",
                          <<"._AC_SL1500_">>, ".jpg", "")
    IN [ main : {NoUrl, imgA, imgAPlain},
         thumbs : ListsUpTo({imgA, imgAPlain, imgAQuery, imgBThumb, imgSprite, imgOverlay},
                            MaxThumbs),
         attrs : {<< >>, <<imgA>>, <<imgB, imgA>>},
         color : {<< >>, <<imgB>>} ]

\* scrapeProductData's image block, in the variant under evaluation
CalcImages ==
    /\ calc.op = "images" /\ calc.stage = 0
    /\ calc' = [calc EXCEPT !.stage = 1,
                            !.out = IF calc.variant = "index.js" THEN IndexImages(calc.dom)
                                    ELSE P6Images(calc.dom)]
    /\ UNCHANGED <<indexVars, p0, auxVars>>

\* ---- safeGoto called on its own, in the three variants of the function
\* index.js and part_005 sleep before the next attempt, part_004 does not
BackoffOf(variant, attempt, retries) ==
    IF variant = "part_004" THEN FALSE ELSE Backoff(attempt, retries)

\* faulty variant: the catch block without the closed-page test
RethrowNever(closed) == FALSE

\* if (page.isClosed()) throw lastErr
RethrowOnClosed(closed) == closed

\* one iteration of safeGoto's loop: page.goto and looksBlocked, then the catch
\* block, which finds the page open or closed
CalcGotoAttempt ==
    /\ calc.op = "safeGoto" /\ calc.result = "running"
    /\ \E outcome \in {"ok", "blocked", "transport", "closed"}, closed \in BOOLEAN :
         /\ outcome = "ok" => ~closed
         /\ outcome = "closed" => closed
         /\ LET err == CASE outcome = "blocked" -> E_Blocked
                         [] outcome = "closed"  -> E_Closed
                         [] OTHER               -> E_Transport
                c == [calc EXCEPT !.loads = @ + 1]
                f == [c EXCEPT !.lastErr = err, !.closedSeen = closed]
            IN calc' =
                 IF outcome = "ok" THEN [c EXCEPT !.result = "returned"]
                 ELSE IF RethrowOnClosed(closed) \/ ~GotoRetries(calc.attempt + 1, calc.retries)
                 THEN [f EXCEPT !.result = "thrown", !.thrown = err]
                 ELSE [f EXCEPT !.attempt = @ + 1,
                                !.slept = BackoffOf(calc.variant, calc.attempt, calc.retries),
                                !.sleeps = IF BackoffOf(calc.variant, calc.attempt, calc.retries)
                                           THEN @ + 1 ELSE @]
    /\ UNCHANGED <<indexVars, p0, auxVars>>

\* the inputs
CalcInputs ==
    {[op |-> "normalize", stage |-> 0, raw |-> r, dom |-> d, out |-> Empty, again |-> Empty] :
        r \in RawPrices, d \in DomPrices}
    \cup {[op |-> "classify", stage |-> 0, sig |-> s, out |-> FALSE] : s \in PageSignals}
    \cup {[op |-> "images", stage |-> 0, variant |-> v, dom |-> d,
           out |-> [mainImageUrl |-> NoUrl, additionalImageUrls |-> << >>]] :
        v \in {"index.js", "part_006"}, d \in ImagePages}
    \cup {[op |-> "safeGoto", variant |-> v, retries |-> n, attempt |-> 0, loads |-> 0,
           slept |-> FALSE, sleeps |-> 0, closedSeen |-> FALSE,
           lastErr |-> << >>, thrown |-> << >>, result |-> "running"] :
        v \in {"index.js", "part_005", "part_004"}, n \in 0..MaxRetriesArg}

CalcNext ==
    \/ CalcNormalize \/ CalcNormalizeAgain \/ CalcClassify \/ CalcImages \/ CalcGotoAttempt

\* ================ src/unnamed/part_006 (second program) /scrape
\* MAX_DETOUR_BOUNCES
P6MaxDetourBounces == 3
\* iterations of the inline continue-shopping loop
P6MaxInlineClicks == 3

\* what a page can show to this handler
P6Fixtures == {"product", "sheet", "overlay", "mission", "captcha", "unknown"}

\* the signals the handler reads from a page showing fixture f
P6Page(f) ==
    LET d == [ hasTitle    |-> f \in {"product", "sheet"},
               hasByline   |-> f \in {"product", "sheet"},
               hasBuyCtas  |-> f \in {"product", "sheet"},
               layoutHints |-> f \in {"product", "sheet", "overlay"},
               canonicalDp |-> f \in {"product", "sheet"} ]
        u == IF f \in {"product", "sheet", "overlay"}
             THEN "https://www.amazon.com/dp/B000000001"
             ELSE IF f = "captcha" THEN "https://www.amazon.com/errors/validateCaptcha"
             ELSE "https://www.amazon.com/"
    IN [ isDpUrl              |-> isDpUrl(u),
         hasProductTitle      |-> d.hasTitle,
         isProductPage        |-> ProductHeuristic(u, d),
         isMissionInterstitial |-> f = "mission",
         hasContinue          |-> f \in {"sheet", "overlay"},
         looksBlocked         |-> f = "captcha" ]

P6NoRes == [sent |-> 0, status |-> 0, ok |-> FALSE, pageType |-> "",
            detourBounceAttempts |-> -1]

P6Idle ==
    [ pc        |-> "idle",
      dp        |-> FALSE,        \* intendedDpUrl is not null
      proc      |-> "none",       \* the browser process
      fx        |-> "blank",      \* what the active page shows
      popup     |-> FALSE,        \* a click opened another page
      detourBounceAttempts |-> 0,
      i         |-> 0,            \* loop variable of the current loop
      productLike |-> FALSE,
      fresh     |-> FALSE,        \* no click, navigation or page switch since isProductPage
      scraped   |-> "no",         \* scrapeProductData ran: "no" | "fresh" | "stale"
      res       |-> P6NoRes ]

\* catch (err) { res.status(500).json({ ok: false, error }) }
P6Catch(st) ==
    [st EXCEPT !.pc = "finally",
               !.res = [P6NoRes EXCEPT !.status = 500, !.sent = st.res.sent + 1]]

\* const onDetour = () => { detourBounceAttempts++; }
onDetour(st) == [st EXCEPT !.detourBounceAttempts = @ + 1]

\* goHomeThenBack(page, targetUrl): logo click and homepage hop in try/catch,
\* then page.goto(targetUrl), which lands on g or rejects (g = "fail")
goHomeThenBack(st, g) ==
    IF g = "fail" THEN P6Catch(st) ELSE [st EXCEPT !.fx = g, !.fresh = FALSE]

\* app.get("/scrape"): url check, extractASINFromUrl, minimalContext
P6Start ==
    /\ p6.pc = "idle"
    /\ \E hasUrl \in BOOLEAN, dp \in BOOLEAN, session \in {"ok", "fails"} :
         p6' = IF ~hasUrl
               THEN [p6 EXCEPT !.pc = "done",
                               !.res = [P6NoRes EXCEPT !.status = 400, !.sent = 1]]
               ELSE IF session = "ok"
               THEN [p6 EXCEPT !.pc = "first", !.dp = dp, !.proc = "open"]
               ELSE P6Catch([p6 EXCEPT !.dp = dp])
    /\ UNCHANGED <<indexVars, p0, calc, conc, srv>>

\* gotoAndRecoverMission(page, inputUrl, { targetUrlAfterHome, onDetour }); ensureAlive
P6FirstNav ==
    /\ p6.pc = "first"
    /\ \E f \in P6Fixtures \cup {"fail"}, g \in P6Fixtures \cup {"fail"} :
         /\ (f = "fail" \/ ~P6Page(f).isMissionInterstitial) => g = "fail"
         /\ LET landed == [p6 EXCEPT !.fx = f]
                back == IF f = "fail" THEN P6Catch(p6)
                        ELSE IF P6Page(f).isMissionInterstitial
                        THEN goHomeThenBack(onDetour(landed), g)
                        ELSE landed
            IN p6' = IF back.pc = "finally" THEN back
                     ELSE IF P6Page(back.fx).looksBlocked THEN P6Catch(back)
                     ELSE [back EXCEPT !.pc = "bounce", !.i = 0]
    /\ UNCHANGED <<indexVars, p0, calc, conc, srv>>

\* one iteration of bounceBackToDp's loop
P6Bounce ==
    /\ p6.pc = "bounce"
    /\ LET s == P6Page(p6.fx)
           leave == [p6 EXCEPT !.pc = "fallback", !.i = 0]
       IN IF ~p6.dp \/ ~(p6.i < P6MaxDetourBounces) THEN p6' = leave
          ELSE IF s.hasProductTitle /\ s.isDpUrl THEN p6' = leave
          ELSE IF ~s.isMissionInterstitial THEN p6' = leave
          ELSE \E g \in P6Fixtures \cup {"fail"} :
                 LET back == goHomeThenBack(onDetour(p6), g)
                 IN p6' = IF back.pc = "finally" THEN back
                          ELSE IF P6Page(g).hasProductTitle
                          THEN [back EXCEPT !.pc = "fallback", !.i = 0]
                          ELSE [back EXCEPT !.i = @ + 1]
    /\ UNCHANGED <<indexVars, p0, calc, conc, srv>>

\* if (isDpUrl(page.url()) && !hasProductTitle) trySimpleContinueShoppingFallback:
\* clicks the literal text up to three times, every failure swallowed
P6Fallback ==
    /\ p6.pc = "fallback"
    /\ LET s == P6Page(p6.fx) IN
       IF s.isDpUrl /\ ~s.hasProductTitle /\ s.hasContinue
       THEN \E g \in P6Fixtures : p6' = [p6 EXCEPT !.pc = "check", !.fx = g]
       ELSE p6' = [p6 EXCEPT !.pc = "check"]
    /\ UNCHANGED <<indexVars, p0, calc, conc, srv>>

\* productLike = isProductPage(page); one more recovery when the budget allows
P6Check ==
    /\ p6.pc = "check"
    /\ LET first == P6Page(p6.fx).isProductPage
           leave(st, pl) == [st EXCEPT !.productLike = pl, !.fresh = TRUE, !.i = 0,
                                       !.pc = IF pl THEN "inline" ELSE "nonProduct"]
       IN IF ~first /\ p6.dp /\ p6.detourBounceAttempts < P6MaxDetourBounces
          THEN \E g \in P6Fixtures \cup {"fail"} :
                 LET back == goHomeThenBack(onDetour(p6), g)
                 IN p6' = IF back.pc = "finally" THEN back
                          ELSE leave(back, P6Page(g).isProductPage)
          ELSE p6' = leave(p6, first)
    /\ UNCHANGED <<indexVars, p0, calc, conc, srv>>

\* safeScreenshot; res.json({ ok: true, pageType: "nonProduct", detourBounceAttempts })
P6NonProduct ==
    /\ p6.pc = "nonProduct"
    /\ \/ p6' = [p6 EXCEPT !.pc = "finally",
                           !.res = [sent |-> p6.res.sent + 1, status |-> 200, ok |-> TRUE,
                                    pageType |-> "nonProduct",
                                    detourBounceAttempts |-> p6.detourBounceAttempts]]
       \/ p6' = P6Catch(p6)
    /\ UNCHANGED <<indexVars, p0, calc, conc, srv>>

\* one iteration of the inline continue-shopping loop
P6Inline ==
    /\ p6.pc = "inline"
    /\ IF ~(p6.i < P6MaxInlineClicks) \/ ~P6Page(p6.fx).hasContinue
       THEN p6' = [p6 EXCEPT !.pc = "scrape", !.i = 0]
       ELSE \E f \in P6Fixtures, g \in P6Fixtures \cup {"fail"}, pop \in BOOLEAN :
              /\ ~P6Page(f).isMissionInterstitial => g = "fail"
              /\ LET clicked == [p6 EXCEPT !.fx = f, !.fresh = FALSE, !.popup = @ \/ pop]
                     back == IF P6Page(f).isMissionInterstitial
                             THEN goHomeThenBack(onDetour(clicked), g)
                             ELSE clicked
                 IN p6' = IF back.pc = "finally" THEN back
                          ELSE IF P6Page(back.fx).hasProductTitle
                          THEN [back EXCEPT !.pc = "scrape", !.i = 0]
                          ELSE [back EXCEPT !.i = @ + 1]
    /\ UNCHANGED <<indexVars, p0, calc, conc, srv>>

\* scrapeProductData(page); on a closed-page error adoptActivePageOrThrow and
\* scrapeProductData again; ensureAlive
P6Scrape ==
    /\ p6.pc = "scrape"
    /\ \/ p6' = [p6 EXCEPT !.pc = "shot", !.scraped = IF p6.fresh THEN "fresh" ELSE "stale"]
       \/ \* the page died: the other open page, if any, is adopted
          \E f \in P6Fixtures :
            p6' = IF p6.popup
                  THEN [p6 EXCEPT !.pc = "shot", !.fx = f, !.fresh = FALSE, !.scraped = "stale"]
                  ELSE P6Catch(p6)
       \/ p6' = P6Catch(p6)
    /\ UNCHANGED <<indexVars, p0, calc, conc, srv>>

\* safeScreenshot; geminiExtract; res.json({ ok: true, pageType: "product", ... })
P6Respond ==
    /\ p6.pc = "shot"
    /\ \/ p6' = [p6 EXCEPT !.pc = "finally",
                           !.res = [sent |-> p6.res.sent + 1, status |-> 200, ok |-> TRUE,
                                    pageType |-> "product",
                                    detourBounceAttempts |-> p6.detourBounceAttempts]]
       \/ p6' = P6Catch(p6)
    /\ UNCHANGED <<indexVars, p0, calc, conc, srv>>

\* finally { close every open page; browser?.close() }
P6Finally ==
    /\ p6.pc = "finally"
    /\ p6' = [p6 EXCEPT !.pc = "done", !.proc = IF @ = "open" THEN "closed" ELSE @]
    /\ UNCHANGED <<indexVars, p0, calc, conc, srv>>

P6Next ==
    \/ P6Start \/ P6FirstNav \/ P6Bounce \/ P6Fallback \/ P6Check \/ P6NonProduct
    \/ P6Inline \/ P6Scrape \/ P6Respond \/ P6Finally

\* ====================== src/index.js: two /scrape requests in one process
\* Every await of a handler is a suspension point at which the other request
\* may run.  The handler's variables are locals of the request's closure; the
\* browsers and pages are objects of the process.
Requests == {1, 2}

\* the locals of one request
ReqIdle ==
    [ pc |-> "idle", browser |-> FALSE, fx |-> Blank,
      detourBounceAttempts |-> 0, continueShoppingDismissals |-> 0, i |-> 0,
      res |-> [status |-> 0, pageType |-> "", detourBounceAttempts |-> -1,
               continueShoppingDismissals |-> -1] ]

ConcIdle == [req |-> [r \in Requests |-> ReqIdle], browsers |-> {}, pages |-> {}]

\* what the request's next await can deliver
ReqInputs(st) ==
    CASE st.pc = "idle"     -> {"url", "nourl"}
      [] st.pc = "session"  -> {"ok", "throw"}
      [] st.pc = "nav"      -> {f \in Fixtures : ~looksBlocked(f)} \cup {"throw"}
      [] st.pc = "detour"   -> IF DetourLoopContinues(st.i) /\ isDetourUrl(FxUrl(st.fx))
                               THEN {f \in Fixtures : ~looksBlocked(f)} \cup {"throw"}
                               ELSE {"-"}
      [] st.pc = "dismiss"  -> IF DismissLoopContinues(st.i) /\ FxDom(st.fx).hasContinue
                               THEN Fixtures ELSE {"-"}
      [] st.pc = "check"    -> {"ok", "throw"}
      [] st.pc = "finally"  -> {"-"}
      [] OTHER              -> {}

\* the handler's code between two awaits, on the locals st, the await
\* delivering x
ReqAdvance(st, x) ==
    LET caught == [st EXCEPT !.pc = "finally", !.res.status = 500]
        answer(pageType) ==
            [st EXCEPT !.pc = "finally",
                       !.res = [status |-> 200, pageType |-> pageType,
                                detourBounceAttempts |-> st.detourBounceAttempts,
                                continueShoppingDismissals |-> st.continueShoppingDismissals]]
    IN CASE st.pc = "idle" ->
              IF x = "nourl" THEN [st EXCEPT !.pc = "done", !.res.status = 400]
              ELSE [st EXCEPT !.pc = "session"]
         [] st.pc = "session" ->
              IF x = "throw" THEN caught ELSE [st EXCEPT !.pc = "nav", !.browser = TRUE]
         [] st.pc = "nav" ->
              IF x = "throw" THEN caught ELSE [st EXCEPT !.pc = "detour", !.fx = x, !.i = 0]
         [] st.pc = "detour" ->
              IF x = "-" THEN [st EXCEPT !.pc = "dismiss", !.i = 0]
              ELSE IF x = "throw" THEN [caught EXCEPT !.detourBounceAttempts = @ + 1]
              ELSE [st EXCEPT !.detourBounceAttempts = @ + 1, !.fx = x, !.i = @ + 1]
         [] st.pc = "dismiss" ->
              IF ~DismissLoopContinues(st.i) THEN [st EXCEPT !.pc = "check", !.i = 0]
              ELSE LET after == IF x = "-" THEN st
                                ELSE [st EXCEPT !.fx = x, !.continueShoppingDismissals = @ + 1]
                   IN IF ProductHeuristic(FxUrl(after.fx), FxDom(after.fx))
                      THEN [after EXCEPT !.pc = "check", !.i = 0]
                      ELSE [after EXCEPT !.i = @ + 1]
         [] st.pc = "check" ->
              IF x = "throw" THEN caught
              ELSE IF ProductHeuristic(FxUrl(st.fx), FxDom(st.fx)) THEN answer("product")
              ELSE answer("nonProduct")
         [] st.pc = "finally" -> [st EXCEPT !.pc = "done"]
         [] OTHER -> st

\* faulty variant: the cleanup loop over the pages of every context
PagesOfAnyContext(c, r) == c.pages

\* context.pages() of request r's context
PagesOfContext(c, r) == {p \in c.pages : p.owner = r}

\* the objects a step of request r creates or closes
ReqEffect(c, r, x, made) ==
    LET st == c.req[r]
        newPage == [owner |-> r, n |-> Cardinality(PagesOfContext(c, r)) + 1, closed |-> FALSE]
        newBrowser == [owner |-> r, closed |-> FALSE]
    IN CASE st.pc = "session" /\ x = "ok" ->
              [c EXCEPT !.browsers = @ \cup {newBrowser}, !.pages = @ \cup {newPage}]
         [] st.pc = "session" /\ x = "throw" /\ made ->
              \* newContext or newPage rejected after chromium.launch: the browser
              \* is running and the handler holds no reference to it
              [c EXCEPT !.browsers = @ \cup {newBrowser}]
         [] st.pc = "dismiss" /\ x \in Fixtures /\ made ->
              [c EXCEPT !.pages = @ \cup {newPage}]
         [] st.pc = "finally" /\ st.browser ->
              [c EXCEPT !.pages = {IF p \in PagesOfContext(c, r)
                                   THEN [p EXCEPT !.closed = TRUE] ELSE p : p \in c.pages},
                        !.browsers = {IF b.owner = r
                                      THEN [b EXCEPT !.closed = TRUE] ELSE b : b \in c.browsers}]
         [] OTHER -> c

\* request r runs from its current await to its next one
ReqStep(r, at) ==
    /\ conc.req[r].pc \in at
    /\ \E x \in ReqInputs(conc.req[r]), made \in BOOLEAN :
         /\ made => \/ (conc.req[r].pc = "session" /\ x = "throw")
                    \/ (conc.req[r].pc = "dismiss" /\ x \in Fixtures
                           /\ Cardinality(PagesOfContext(conc, r)) <= MaxPopups)
         /\ conc' = [ReqEffect(conc, r, x, made) EXCEPT !.req[r] = ReqAdvance(conc.req[r], x)]
    /\ UNCHANGED <<indexVars, p0, calc, p6, srv>>

\* app.get("/scrape"): the url check
ConcReceive == \E r \in Requests : ReqStep(r, {"idle"})
\* await minimalContext(width, height)
ConcSession == \E r \in Requests : ReqStep(r, {"session"})
\* await safeGoto(page, targetUrl, { retries: 2 }), the detour loop
ConcNavigate == \E r \in Requests : ReqStep(r, {"nav", "detour"})
\* the continue-shopping loop
ConcDismiss == \E r \in Requests : ReqStep(r, {"dismiss"})
\* isProductPage, screenshot, res.json
ConcRespond == \E r \in Requests : ReqStep(r, {"check"})
\* finally { close the context's pages; browser?.close() }
ConcFinally == \E r \in Requests : ReqStep(r, {"finally"})

ConcNext ==
    \/ ConcReceive \/ ConcSession \/ ConcNavigate \/ ConcDismiss \/ ConcRespond \/ ConcFinally

\* ===================== process start-up: src/index.js and src/unnamed/part_001
P1NoRes == [sent |-> 0, status |-> 0, ok |-> FALSE, case |-> "", gemini |-> ""]

SrvIdle ==
    [ variant |-> "index.js",    \* the file the process runs
      key     |-> FALSE,         \* process.env.GEMINI_API_KEY is set
      stage   |-> "off",         \* "off" | "load" | "ready" | "listening" | "exited"
      p1      |-> [ pc |-> "absent",      \* position of the part_001 handler
                    browser |-> "none",   \* the browser process
                    detected |-> "",      \* detectCase's type
                    res |-> P1NoRes ] ]

\* module top level up to the Gemini client: index.js exits without the key,
\* part_001 passes whatever the environment holds to the constructor
SrvLoad ==
    /\ srv.stage = "load"
    /\ srv' = [srv EXCEPT !.stage = IF srv.variant = "index.js" /\ ~srv.key
                                    THEN "exited" ELSE "ready"]
    /\ UNCHANGED <<indexVars, p0, calc, p6, conc>>

\* app.listen(PORT, ...): the /scrape route can be invoked from now on
SrvListen ==
    /\ srv.stage = "ready"
    /\ IF srv.variant = "index.js"
       THEN /\ srv' = [srv EXCEPT !.stage = "listening"]
            /\ pc' = "idle"
       ELSE /\ srv' = [srv EXCEPT !.stage = "listening", !.p1.pc = "idle"]
            /\ pc' = pc
    /\ UNCHANGED <<sessionVars, pages, handlerVars, res, crashes, hist, p0, calc, p6, conc>>

\* part_001 catch (err) { browser?.close(); res.status(500).json(...) }
P1Catch(st) ==
    [st EXCEPT !.p1.pc = "done",
               !.p1.browser = IF @ = "open" THEN "closed" ELSE @,
               !.p1.res = [P1NoRes EXCEPT !.sent = st.p1.res.sent + 1, !.status = 500,
                                          !.case = "error"]]

\* part_001 app.get("/scrape"): url check, minimalContext
P1Start ==
    /\ srv.p1.pc = "idle"
    /\ \E hasUrl \in BOOLEAN, session \in {"ok", "fails"} :
         srv' = IF ~hasUrl
                THEN [srv EXCEPT !.p1.pc = "done",
                                 !.p1.res = [P1NoRes EXCEPT !.sent = 1, !.status = 400]]
                ELSE IF session = "ok"
                THEN [srv EXCEPT !.p1.pc = "goto", !.p1.browser = "open"]
                ELSE P1Catch(srv)
    /\ UNCHANGED <<indexVars, p0, calc, p6, conc>>

\* part_001 page.goto; detectCase (title, 503, 504, fallback normal); the
\* error branch answers at once
P1Goto ==
    /\ srv.p1.pc = "goto"
    /\ \/ \E titleVisible \in BOOLEAN, is503 \in BOOLEAN, is504 \in BOOLEAN :
            LET type == IF titleVisible THEN "normal"
                        ELSE IF is503 \/ is504 THEN "error" ELSE "normal"
            IN srv' = IF type = "error"
                      THEN [srv EXCEPT !.p1.pc = "done", !.p1.detected = type,
                                       !.p1.browser = "closed",
                                       !.p1.res = [P1NoRes EXCEPT !.sent = 1, !.status = 200,
                                                                  !.case = "error"]]
                      ELSE [srv EXCEPT !.p1.pc = "ocr", !.p1.detected = type]
       \/ srv' = P1Catch(srv)
    /\ UNCHANGED <<indexVars, p0, calc, p6, conc>>

\* part_001 getTitle, scrapeProductData, screenshot, model.generateContent in
\* try/catch, browser.close(), res.json({ ok: true, geminiData, ... })
P1Vision ==
    /\ srv.p1.pc = "ocr"
    /\ \/ \E reply \in {"parsed", "unparsed", "call failed"} :
            /\ ~srv.key => reply = "call failed"
            /\ srv' = [srv EXCEPT !.p1.pc = "done", !.p1.browser = "closed",
                                  !.p1.res = [P1NoRes EXCEPT !.sent = 1, !.status = 200,
                                                             !.ok = TRUE, !.case = "normal",
                                                             !.gemini = reply]]
       \/ srv' = P1Catch(srv)
    /\ UNCHANGED <<indexVars, p0, calc, p6, conc>>

SrvNext == SrvLoad \/ SrvListen \/ P1Start \/ P1Goto \/ P1Vision

\* ========================================================= specifications
\* the handler's variables other than its position, before a request
InitFrame ==
    /\ proc = "none"
    /\ browser = FALSE
    /\ context = FALSE
    /\ pages = << >>
    /\ page = 0
    /\ detourBounceAttempts = 0
    /\ continueShoppingDismissals = 0
    /\ i = 0
    /\ nav = NoNav
    /\ shot = NoShot
    /\ scraped = NoScraped
    /\ hcs = NoHcs
    /\ res = NoRes
    /\ crashes = 0
    /\ hist = NoHist

\* the other programs before a request
AuxIdle == p6 = P6Idle /\ conc = ConcIdle /\ srv = SrvIdle

Init ==
    /\ pc = "idle"
    /\ InitFrame
    /\ p0 = P0Idle
    /\ calc = CalcIdle
    /\ AuxIdle

Handler ==
    \/ Receive \/ Launch \/ NewContext \/ NewPageSetup
    \/ SafeGotoAttempt \/ AfterFirstNav \/ DetourLoop \/ AfterBounce
    \/ DismissLoop \/ HcsClick \/ HcsPick \/ HcsCatch \/ HcsReturn
    \/ FinalCheck \/ Scrape \/ ScreenshotAttempt \/ RespondNonProduct
    \/ Vision \/ Finally

Next == Handler \/ PageCrash

Spec == Init /\ [][Next]_vars

\* every awaited browser or service call returns or times out, so the
\* handler's next step is eventually taken
SpecLive == Spec /\ WF_vars(Handler)

\* the part_000 handler serving one request
SpecP0 == Init /\ [][P0Next]_vars

\* a deployment runs one variant of the server: the handler of the other
\* variant does not exist in it
InitAll ==
    /\ InitFrame
    /\ calc = CalcIdle
    /\ AuxIdle
    /\ \/ pc = "idle" /\ p0 = [P0Idle EXCEPT !.pc = "absent"]
       \/ pc = "absent" /\ p0 = P0Idle

NextAll == Next \/ P0Next

\* either variant serving one request, every awaited call returning or
\* timing out
SpecAll == InitAll /\ [][NextAll]_vars /\ WF_vars(Handler) /\ WF_vars(P0Next)

\* a function applied to one of its inputs
CalcInit ==
    /\ pc = "idle"
    /\ InitFrame
    /\ p0 = P0Idle
    /\ calc \in CalcInputs
    /\ AuxIdle

SpecCalc == CalcInit /\ [][CalcNext]_vars

\* the part_006 handler (second program) serving one request
SpecP6 == Init /\ [][P6Next]_vars

\* two requests served concurrently by the index.js process
SpecConc == Init /\ [][ConcNext]_vars

\* a process from its start: the file it runs and the environment it finds
BootInit ==
    /\ pc = "absent"
    /\ InitFrame
    /\ p0 = P0Idle /\ calc = CalcIdle /\ p6 = P6Idle /\ conc = ConcIdle
    /\ srv \in {[SrvIdle EXCEPT !.variant = v, !.key = k, !.stage = "load"] :
                  v \in {"index.js", "part_001"}, k \in BOOLEAN}

BootNext == SrvNext \/ Next

SpecBoot == BootInit /\ [][BootNext]_vars

\* ================================================================== claims
Responded == res.status # 0
InDismissal == pc \in {"dismiss", "hcsClick", "hcsPick", "hcsCatch", "hcsRet"}
                  \/ nav.caller \in {"hcsTry", "hcsCatch"}

\* C1: when the handler has finished, the browser process it launched is
\* closed and every page created for the request is closed.
NoLeakAfterRequest ==
    pc = "done" => (proc # "open" /\ \A k \in Idx : pages[k].closed)

\* C2: scrapeProductData is invoked only on pages that isProductPage found to
\* be Product during the request.
ExtractionOnlyOnClassifiedProduct == hist.scrapedOn \subseteq hist.classified

\* C3: once the first navigation has succeeded, a failing recovery step (a
\* detour bounce or an overlay dismissal) still ends in HTTP 200, ok:true,
\* pageType nonProduct with a screenshot and the counters.
RecoveryFailureDegrades ==
    (Responded /\ hist.firstNavOk /\ hist.failStage \in {"bounce", "dismiss"})
        => /\ res.status = 200 /\ res.ok /\ res.pageType = "nonProduct"
           /\ res.screenshot
           /\ res.detourBounceAttempts >= 0 /\ res.continueShoppingDismissals >= 0

\* C5: when the vision call throws, returns no response or returns malformed
\* text on a Product page, the response is HTTP 200 with pageType product.
VisionFailureNeverAborts ==
    (Responded /\ (hist.vision \in {"throws", "noResponse"}
                     \/ (hist.vision = "replied" /\ ~hist.parsed)))
        => res.status = 200 /\ res.pageType = "product"

\* C6: when the vision reply is not parseable, brand and priceGemini of the
\* response are both exactly "Unspecified", whatever the DOM price is.
UnparsedReplyYieldsSentinels ==
    (res.pageType = "product" /\ hist.vision = "replied" /\ ~hist.parsed)
        => res.brand = Unspecified /\ res.priceGemini = Unspecified

\* C7: a closed-page condition met during classification, extraction or
\* screenshot fails the request only after a live page was adopted and the
\* operation retried, or when no live page existed.
ClosedPageRetriedBeforeFailure ==
    (res.status = 500 /\ hist.closedFail)
        => (hist.adoptedAtFail \/ ~hist.liveAtFail)

\* C8: at most 3 detour bounce-back navigations are issued, each from a detour
\* URL, and the detourBounceAttempts of a response is within 0..3.
DetourBouncesBounded ==
    /\ hist.bounces <= 3
    /\ detourBounceAttempts = hist.bounces
    /\ \A u \in hist.bounceUrls : u \in DetourPatternUrls /\ u \notin DpUrls
    /\ res.status = 200 => res.detourBounceAttempts \in 0..3

\* C8 witness: a response reporting three bounces
ThreeBouncesReported ==
    res.status = 200 /\ res.detourBounceAttempts = 3 /\ hist.bounces = 3

\* C9: handleContinueShopping is called at most 3 times, never again after
\* the page classified as Product inside the loop, and the
\* continueShoppingDismissals of a response is within 0..3.
DismissalsBounded ==
    /\ hist.hcsCalls <= 3
    /\ continueShoppingDismissals \in 0..3
    /\ continueShoppingDismissals <= hist.hcsCalls
    /\ hist.loopReady => ~InDismissal
    /\ res.status = 200 => res.continueShoppingDismissals \in 0..3

\* C9 witness: three attempts, all counted, reported in a response
ThreeDismissalsReported ==
    res.status = 200 /\ res.continueShoppingDismissals = 3 /\ hist.hcsCalls = 3

\* C10: once the first navigation has succeeded the handler always leaves the
\* recovery loops and sends a response.
RecoveryTerminates == [](hist.firstNavOk => <>(Responded /\ pc = "done"))

\* C10 witness: both budgets exhausted on a page that is never Product, and
\* a response sent
BudgetsExhaustedAndAnswered ==
    /\ pc = "done" /\ res.pageType = "nonProduct"
    /\ hist.bounces = 3 /\ hist.hcsCalls = 3 /\ hist.classified = {}

\* C4: with no solving credential configured, a page detected as a bot
\* challenge is answered with HTTP 200, a screenshot and solverOk:false; the
\* solver's absence or failure never produces an error status.
CaptchaWithoutKeyDegrades ==
    (p0.pc = "done" /\ ~p0.key /\ p0.detected.type = "captcha-text"
        /\ p0.failStage \in {"", "solver"})
        => p0.res.status = 200 /\ p0.res.screenshot /\ p0.res.solverOk = "false"

\* C11: every request receives exactly one response: one is eventually sent
\* on every path of either handler, and never a second one.
ExactlyOneResponse ==
    /\ <>((pc = "done" /\ res.sent = 1) \/ (p0.pc = "done" /\ p0.res.sent = 1))
    /\ [](res.sent <= 1 /\ p0.res.sent <= 1)

\* C11 witness: an exception reached the catch block, cleanup ran, and the
\* one response is the error response
OneResponseAfterException ==
    pc = "done" /\ res.sent = 1 /\ res.status = 500 /\ hist.failStage = "vision"

\* C12: a response body with ok:false is never sent with a 2xx status.
FailureBodyNever2xx ==
    (p0.res.sent > 0 /\ ~p0.res.ok) => p0.res.status \notin 200..299

\* C13: in a product response no extracted scalar field is an empty string,
\* and a field the page (or the screenshot) gave no value for is exactly
\* "Unspecified".
ProductFieldsNeverEmpty ==
    /\ res.pageType = "product" =>
          /\ res.brand # Empty /\ res.price # Empty /\ res.priceGemini # Empty
          /\ (hist.vision = "replied" /\ ~hist.parsed) => res.priceGemini = Unspecified
    /\ (p0.res.status = 200 /\ p0.res.case = "normal") =>
          p0.res.brand # Empty /\ p0.res.price # Empty

\* the sprite / overlay / icon naming patterns
NamedJunk(u) == \E w \in IndexJunkWords \cup {"icon"} : IncludesLower(u, w)

\* C14: the secondary image list has no duplicate, does not contain the
\* primary image and contains no address matching a sprite/overlay/icon
\* pattern.
SecondaryImagesClean ==
    (calc.op = "images" /\ calc.stage = 1) =>
        LET l == calc.out.additionalImageUrls IN
        /\ \A j, k \in 1..Len(l) : j # k => l[j] # l[k]
        /\ \A k \in 1..Len(l) : l[k] # calc.out.mainImageUrl /\ ~NamedJunk(l[k])

\* C15: normalizing a normalized price returns it unchanged.
NormalizeIdempotent ==
    (calc.op = "normalize" /\ calc.stage = 2) => calc.again = calc.out

\* C16: normalizeGeminiPrice("34,95", "$1") is "$34.95".
WorkedExampleCommaCents ==
    (calc.op = "normalize" /\ calc.stage >= 1
        /\ calc.raw = <<"3","4",",","9","5">> /\ calc.dom = <<"$","1">>)
        => calc.out = <<"$","3","4",".","9","5">>

\* C17: safeGoto loads at most retries+1 times, backs off between a failed
\* attempt and the next one, and on failure throws the last attempt's error.
SafeGotoContract ==
    calc.op = "safeGoto" =>
        /\ calc.loads <= calc.retries + 1
        /\ (calc.result = "running" /\ calc.attempt > 0) => calc.slept
        /\ calc.result = "returned" => calc.thrown = << >>
        /\ calc.result = "thrown" => (calc.thrown = calc.lastErr /\ calc.thrown # << >>)

\* C18: a page showing a 503/504 marker, or loaded with status 503/504, is
\* handled as a transient error whatever else it shows.
TransientErrorWinsClassification ==
    (p0.pc = "branch" /\ (p0.sig.is503 \/ p0.sig.is504 \/ p0.httpStatus \in {503, 504}))
        => (p0.detected.type = "error" \/ p0.httpStatus \in {503, 504})

\* C19: a page is Product exactly when the title element is present with at
\* least one of byline, purchase call-to-action, layout container.
ProductIffTitleAndSecondary ==
    (calc.op = "classify" /\ calc.stage = 1) =>
        (calc.out <=> (calc.sig.hasTitle /\ (calc.sig.hasByline \/ calc.sig.hasBuyCtas
                                              \/ calc.sig.layoutHints)))

ActivePageIsMostRecent ==
    [][(pc \in {"hcsPick", "hcsCatch"} /\ pc' = "hcsRet" /\ Cardinality(ContextPages) > 1
          /\ \E k \in ContextPages : url(k) # "about:blank")
        => hcs'.p2 = Max({k \in ContextPages : url(k) # "about:blank"})]_vars

\* C22: a dismissal is counted only when, after the attempt, the page that
\* handleContinueShopping returned no longer shows the dismissal control or
\* shows the product title.
DismissalCountedOnlyOnSuccess ==
    [][continueShoppingDismissals' > continueShoppingDismissals
        => (isClosed(hcs.p2) \/ ~dom(hcs.p2).hasContinue \/ dom(hcs.p2).hasTitle)]_vars

\* C23: solveTextCaptcha issues at most 20 poll requests, each after a 5 s
\* sleep; it polls no further once a poll gave a solution or a definitive
\* error, and it returns ok:false, stage 'timeout' exactly after 20 answers
\* 'not ready'.
PollingBounded ==
    /\ [](/\ p0.polls <= 20
          /\ p0.waited = 5000 * p0.polls
          /\ (p0.solver.stage = "timeout" => ~p0.solver.ok /\ p0.polls = 20)
          /\ (p0.pc = "poll" => p0.solver = NoSolver))
    /\ [][p0.pc # "poll" => p0'.polls = p0.polls]_vars
    /\ [][(p0.pc = "poll" /\ p0.polls = 20) => p0'.solver.stage = "timeout"]_vars

\* C23 witness: twenty polls answered 'not ready' and the solver gave up
PollingTimedOut ==
    p0.pc = "solved" /\ p0.polls = 20 /\ p0.solver = [ok |-> FALSE, stage |-> "timeout"]

\* C30: when safeGoto finds the page closed after a failed attempt it throws
\* that attempt's error at once: no back-off, no further page.goto, whatever
\* retries remain.
ClosedPageStopsRetrying ==
    /\ []((calc.op = "safeGoto" /\ calc.closedSeen)
            => (calc.result = "thrown" /\ calc.thrown = calc.lastErr /\ calc.thrown # << >>))
    /\ [][(calc.op = "safeGoto" /\ calc'.closedSeen)
            => (calc'.sleeps = calc.sleeps /\ calc'.loads <= calc.loads + 1
                /\ (calc.closedSeen => calc'.loads = calc.loads))]_vars

\* C30 witness: index.js safeGoto threw on a closed page with retries left
ClosedWithRetriesLeft ==
    /\ calc.op = "safeGoto" /\ calc.variant = "index.js"
    /\ calc.closedSeen /\ calc.result = "thrown"
    /\ calc.attempt < calc.retries /\ calc.thrown = E_Transport

\* C29: whenever handleContinueShopping returns, the page it returns is open.
ContinueShoppingReturnsAlivePage ==
    [][(pc # "hcsRet" /\ pc' = "hcsRet") => ~pages'[hcs'.p2].closed]_vars

\* C26: a response is never produced from the first transient-error
\* classification: before an error-case answer the handler has navigated
\* again and classified the reloaded page.
TransientErrorRetriedBeforeAnswer ==
    (p0.res.status = 200 /\ p0.res.case = "error") => (p0.gotos >= 2 /\ p0.detections >= 2)

\* C27: the detourBounceAttempts value of a response never exceeds
\* MAX_DETOUR_BOUNCES (3).
CallbackDetoursBounded ==
    p6.res.status = 200 => p6.res.detourBounceAttempts <= 3

\* C28: scrapeProductData runs on the page as it was classified: no click,
\* navigation or page switch lies between the last isProductPage and it.
ExtractionOnFreshClassification == p6.scraped # "stale"

\* C24: a process that lacks the model API credential never listens and never
\* handles a /scrape request.
CredentialRequiredToServe ==
    ~srv.key => (srv.stage # "listening" /\ pc = "absent" /\ srv.p1.res.sent = 0)

====
